---- MODULE Spec2Model ----
(***************************************************************************)
(* Response cache and speech-synthesis handoff of the learning assistant   *)
(* backend (layer/python/s3_cache_utils.py, polly_utils.py, s3_utils.py,   *)
(* hash_utils.py) and its transcription handlers.                          *)
(*                                                                         *)
(* Every Lambda invocation is an independent process that shares one S3    *)
(* bucket and the Polly service with the others.  Each call to S3, Bedrock *)
(* or Polly is one step; a call may fail, and the step then follows the    *)
(* code's exception path.                                                  *)
(*                                                                         *)
(* Specifications:                                                         *)
(*   Spec            calls of the two cache functions, concurrently        *)
(*   SpecSequential  calls of get_or_generate_bedrock_response, one after  *)
(*                   the other                                             *)
(*   SpecAudio       calls of get_or_synthesize_speech, with Polly         *)
(*                   completing the tasks it was given                     *)
(*   SpecHandlers    get-summary requests: the handler calls the cache,    *)
(*                   then the synthesis, then responds                     *)
(*   SpecKeys        calls of s3_utils.get_file_key and the clock          *)
(*   SpecHash        calls of hash_utils.deterministic_hash and the clock  *)
(*   SpecChunks      runs of polly_utils.split_text_into_chunks, one       *)
(*                   loop iteration a step                                 *)
(*   SpecTranscripts start-transcription and check-transcription       *)
(*                   requests of two identities, with Transcribe ending    *)
(*                   the jobs and each call of move_s3_object a step       *)
(***************************************************************************)
EXTENDS Naturals, Integers, Sequences, FiniteSets, TLC

(***************************************************************************)
(* Bounds of the model                                                     *)
(***************************************************************************)
\* number of calls the invocations start in one behaviour
MaxCalls == 3

\* number of requests the handlers receive in one behaviour
MaxRequests == 2

\* number of get_file_key calls in one behaviour, and the last clock reading
MaxKeyCalls == 2
MaxTick == 1

\* the concurrently running Lambda invocations
Procs == {"p1", "p2"}

(***************************************************************************)
(* Program constants                                                       *)
(***************************************************************************)
\* polly_utils.py:41
SYNTHESIZE_MAX_LENGTH == 3000
\* polly_utils.py:42
ASYNC_SYNTHESIZE_MAX_LENGTH == 180000

\* constants.py:26, constants.py:27
SYNTHESIS_RESULT_TASK_ID == "task_id"
SYNTHESIS_RESULT_AUDIO_KEY == "audio_key"

\* constants.py:86
MP3 == "mp3"

\* constants.py:52, constants.py:70, constants.py:73
OK_CODE == 200
INTERNAL_SERVER_ERROR_CODE == 500
UNPROCESSABLE_CONTENT_CODE == 422
PROCESSING_CODE == 102
COMPLETED_STATUS == "COMPLETED"

\* constants.py:12, constants.py:14, constants.py:16
SUMMARIES_FOLDER_PATH == "summaries/"
ASSISTANT_FOLDER_PATH == "assistant/"
AUDIOS_FOLDER_PATH == "audios/"

\* no object / no value
NoObj == << >>
None == "None"

(***************************************************************************)
(* s3_utils.get_file_key                                                   *)
(***************************************************************************)
\* Python's truth value of an optional string argument
Truthy(argument) == argument # None /\ argument # ""

\* get_file_key; ts is what datetime.timestamp(datetime.now()) gives the call
get_file_key(transcription_job_name, folder_path, identity_id, output_format, model_id, language, timestamp, ts) ==
    IF Truthy(language) /\ Truthy(model_id)
    THEN IF timestamp = None
         THEN identity_id \o "/" \o folder_path \o transcription_job_name
                  \o "-" \o model_id \o "-" \o language \o "." \o output_format
         ELSE identity_id \o "/" \o folder_path \o transcription_job_name
                  \o "-" \o model_id \o "-" \o ToString(ts) \o "-" \o language
                  \o "." \o output_format
    ELSE IF Truthy(language)
    THEN identity_id \o "/" \o folder_path \o transcription_job_name
             \o "-" \o language \o "." \o output_format
    ELSE IF Truthy(model_id)
    THEN identity_id \o "/" \o folder_path \o transcription_job_name
             \o "-" \o model_id \o "." \o output_format
    ELSE identity_id \o "/" \o folder_path \o transcription_job_name
             \o "." \o output_format

\* the arguments the handlers pass to get_file_key
JobNames == {"jobA"}
FolderPaths == {SUMMARIES_FOLDER_PATH, ASSISTANT_FOLDER_PATH}
IdentityIds == {"u1"}
OutputFormats == {"json"}
ModelIds == {None, "modelX", "modelX-en"}
Languages == {None, "US", "en-US"}
Timestamps == {None, "True"}

(***************************************************************************)
(* Inputs                                                                  *)
(***************************************************************************)
\* keys of cached text artifacts and of their narrations
TextKeys == {"u1/summaries/jobA-modelX-en.json"}
AudioKeys == {"u1/summaries/audios/jobA-modelX-en.mp3"}
Keys == TextKeys \cup AudioKeys

\* what a generation function can return (the text of a model's answer)
Values == {"answer one", "answer two"}

\* lengths of the text handed to the synthesis, on both sides of both limits
TextLengths ==
    { SYNTHESIZE_MAX_LENGTH - 1, SYNTHESIZE_MAX_LENGTH, 50000,
      ASYNC_SYNTHESIZE_MAX_LENGTH }

\* language codes a caller may pass; Polly has voices for the first only
LanguageCodes == {"en-US", "xx-XX"}

\* Polly's voice catalogue: the voices DescribeVoices lists, in order
PollyVoices ==
    << [Id |-> "Joanna",  LanguageCode |-> "en-US"],
       [Id |-> "Matthew", LanguageCode |-> "en-US"] >>

\* len(text) of the answers a model gives: one short enough for the
\* synchronous synthesis, one too long for any synthesis
len(text) ==
    IF text = "answer one"
    THEN SYNTHESIZE_MAX_LENGTH - 1
    ELSE ASYNC_SYNTHESIZE_MAX_LENGTH

\* what a get-summary request carries besides its language
RequestJobName == "jobA"
RequestIdentityId == "u1"
RequestModelId == "modelX"

\* get-summary/lambda-handler.py line 133 and line 136
SummaryKey(requested_language) ==
    get_file_key(RequestJobName, SUMMARIES_FOLDER_PATH, RequestIdentityId,
                 "json", RequestModelId, requested_language, None, 0)
SummaryAudioKey(requested_language) ==
    get_file_key(RequestJobName, SUMMARIES_FOLDER_PATH \o AUDIOS_FOLDER_PATH,
                 RequestIdentityId, MP3, RequestModelId, requested_language,
                 None, 0)

SummaryKeys == { SummaryKey(l) : l \in LanguageCodes }
SummaryAudioKeys == { SummaryAudioKey(l) : l \in LanguageCodes }

\* polly_utils.get_synthesis_file_key: the key of the audio a speech
\* synthesis task leaves in the bucket
get_synthesis_file_key(file_key, task_id, output_format) ==
    file_key \o ToString(task_id) \o "." \o output_format

(***************************************************************************)
(* hash_utils.py                                                           *)
(***************************************************************************)
\* number of deterministic_hash calls in one behaviour
MaxHashCalls == 2

\* number of start-transcription and check-transcription requests in one
\* behaviour
MaxTranscriptionRequests == 4

ALLOWED_CHARS_HASH ==
    "abcdefghijklmnopqrstuvwxyzABCDEFGHIJKLMNOPQRSTUVWXYZ0123456789._-"

\* the characters of a string
Chars(str) == { SubSeq(str, i, i) : i \in 1..Len(str) }

\* str.find(sub): the lowest index, counted from 0, at which sub occurs in
\* str, and -1 when it occurs nowhere
find(str, sub) ==
    LET occurrences == { i \in 1..(Len(str) - Len(sub) + 1) :
                            SubSeq(str, i, i + Len(sub) - 1) = sub }
    IN  IF occurrences = {}
        THEN -1
        ELSE (CHOOSE i \in occurrences : \A j \in occurrences : i <= j) - 1

\* str.rstrip(chars): str without its trailing characters that are in chars
RECURSIVE rstrip(_, _)
rstrip(str, chars) ==
    IF str # "" /\ SubSeq(str, Len(str), Len(str)) \in chars
    THEN rstrip(SubSeq(str, 1, Len(str) - 1), chars)
    ELSE str

\* the code point U+D800, a surrogate with no partner, is written "^" here:
\* a str can hold it (json.loads gives it for "\ud800"), UTF-8 cannot
LoneSurrogate == "^"

\* str.encode() returns for these strings and raises UnicodeEncodeError
\* for the others
CanEncode(str) == LoneSurrogate \notin Chars(str)

\* the file keys deterministic_hash is called with
FileKeys ==
    { "", "lecture1.mp4", "videos/lecture1.mp4",
      "s3://bucket/videos/lecture1.mp4", "public/videos/lecture1.mp4",
      "videos/lecture2.mp4", "my-videos", "^.mp4", "^/videos/lecture1.mp4" }

\* base64.urlsafe_b64encode(hashlib.sha256(data.encode()).digest())
\* .decode('utf-8'), for the strings hashed here
Sha256Base64 ==
    "" :>
        "47DEQpj8HBSa-_TImW-5JCeuQeRkm5NMpJWZG3hSuFU=" @@
    "lecture1.mp4" :>
        "9im5ORaDuvfMnTI6SHWgPcgN9ERLuRMdgoOhFD4WFUw=" @@
    "videos/lecture1.mp4" :>
        "Gp-09fzSSRRWSctibkGvLqdfRiT_NZJ5Z-SPcGGigoQ=" @@
    "s3://bucket/videos/lecture1.mp4" :>
        "ARifPPkkcfd1Zux_oqgYoLIJUoXJfKHwpo73euVJqsk=" @@
    "public/videos/lecture1.mp4" :>
        "yvqvC_zAWYTW3xVaJ0XcpJm0ENHjx3EVaigloGPTXwg=" @@
    "videos/lecture2.mp4" :>
        "Ga3vgOJsrdOBi3j07NXJmsb1N7lYe6y-GPj3dBBzVkk=" @@
    "my-videos" :>
        "7DXsz12T9tiBOSbRzHGbYDe8alCQIU-qhl5ZmUYWaUo=" @@
    "videos" :>
        "JnYOfOWlb0sCgHf1mz2Dgst8uzrL15HdU4XrOwRhaJM="

\* line 60: allowed_chars = set(ALLOWED_CHARS_HASH)
allowed_chars == Chars(ALLOWED_CHARS_HASH)

\* lines 62-63: the characters of hash_str that are in allowed_chars
RECURSIVE filtered_hash(_)
filtered_hash(hash_str) ==
    IF hash_str = ""
    THEN ""
    ELSE LET char == SubSeq(hash_str, 1, 1)
             rest == filtered_hash(SubSeq(hash_str, 2, Len(hash_str)))
         IN  IF char \in allowed_chars
             THEN char \o rest
             ELSE rest

\* mutant: the base64 text is returned as it is, padding included
sha256_urlsafe_unfiltered(result) ==
    IF CanEncode(result)
    THEN << "return", Sha256Base64[result] >>
    ELSE << "raise", "UnicodeEncodeError" >>

\* lines 51-65: result.encode(), the digest in base64 without its padding,
\* filtered; what is returned, or the exception encode() raises
sha256_urlsafe(result) ==
    IF CanEncode(result)
    THEN << "return", filtered_hash(rstrip(Sha256Base64[result], {"="})) >>
    ELSE << "raise", "UnicodeEncodeError" >>

\* mutant: the whole file key is hashed, the marker is not looked for
deterministic_hash_whole(file_key) == sha256_urlsafe(file_key)

\* deterministic_hash: lines 43-49 cut the file key at the first "videos"
deterministic_hash(file_key) ==
    LET videos_index == find(file_key, "videos")
        result == IF videos_index # -1
                  THEN SubSeq(file_key, videos_index + 1, Len(file_key))
                  ELSE file_key
    IN  sha256_urlsafe(result)

(***************************************************************************)
(* The transcription requests: start-transcription, check-transcription    *)
(***************************************************************************)
TEMPORARY_FOLDER_PATH == "temp/"
TRANSCRIPTIONS_FOLDER_PATH == "transcriptions/"

\* the Cognito identities of the users that send the requests
Identities == {"u1", "u2"}

\* the fileKey of a start-transcription request: the key of the media
\* under the folder of the identity
MediaFileKeys == {"videos/lecture1.mp4", "public/videos/lecture1.mp4", "^.mp4"}

\* the job names start-transcription derives from them
TranscriptionJobNames ==
    { deterministic_hash(file_key)[2] :
         file_key \in { k \in MediaFileKeys : deterministic_hash(k)[1] = "return" } }

\* check-transcription line 69: where Transcribe leaves the transcript
TempFileKey(transcription_job_name) ==
    TEMPORARY_FOLDER_PATH \o TRANSCRIPTIONS_FOLDER_PATH
        \o transcription_job_name \o ".json"

\* check-transcription line 70: where the handler moves the transcript
TranscriptionFileKey(transcription_job_name, identity_id) ==
    get_file_key(transcription_job_name, TRANSCRIPTIONS_FOLDER_PATH,
                 identity_id, "json", None, None, None, 0)

TranscriptKeys ==
    { TempFileKey(j) : j \in TranscriptionJobNames } \cup
    { TranscriptionFileKey(j, i) : j \in TranscriptionJobNames, i \in Identities }

\* the keys Polly's tasks can write, and all keys of the media bucket
SynthesisKeys ==
    { get_synthesis_file_key(k, i, MP3) : k \in AudioKeys, i \in 1..MaxCalls }
Bucket ==
    Keys \cup SummaryKeys \cup SummaryAudioKeys \cup SynthesisKeys
        \cup TranscriptKeys

(***************************************************************************)
(* State                                                                   *)
(***************************************************************************)
VARIABLES
    s3,               \* the media bucket: key -> stored object, NoObj if absent
    tasks,            \* Polly's speech synthesis tasks
    pc,               \* where each invocation stands
    call,             \* the arguments of the call an invocation is running
    file_exists,      \* local of get_or_generate... / get_or_synthesize_speech
    bedrock_response, \* local of get_or_generate_bedrock_response
    voice,            \* local of synthesize_speech
    outcome,          \* what the call returned or raised
    log,              \* per call: what it did to the bucket, Bedrock and Polly
    settled,          \* per key: the object left by a finished miss/miss race
    started,          \* calls (under SpecHandlers: requests) started so far
    handler,          \* the locals of the Lambda handler an invocation runs
    now,              \* the clock datetime.now() reads
    issued,           \* the calls of get_file_key made so far, with their keys
    hashed,           \* the calls of deterministic_hash made so far
    chunking,         \* the locals of the running split_text_into_chunks
    jobs,             \* Transcribe's transcription jobs, by name
    request           \* the locals of the transcription handler an invocation runs

vars == << s3, tasks, pc, call, file_exists, bedrock_response, voice,
           outcome, log, settled, started, handler, now, issued, hashed,
           chunking, jobs, request >>

NoCall ==
    [ fn |-> "none", file_key |-> "", text_length |-> 0,
      language_code |-> "", async_processing |-> FALSE ]

NewLog ==
    [ present_at_check |-> FALSE,  \* the key held an object when it was checked
      head |-> "",                 \* how head_object ended in the check
      raced |-> FALSE,             \* missed while another call's miss was open
      retry |-> FALSE,             \* follows a call the generation made fail
      generated |-> 0,             \* invocations of the generation function
      read |-> NoObj,              \* the object get_object returned
      puts |-> << >>,              \* put_object calls: << key, object >>
      polly |-> << >> ]            \* Polly API calls, in order

\* the locals of a handler that has not been invoked
NoRequest ==
    [ stage |-> "none", language |-> "", summary_key |-> "", audio_key |-> "",
      summary |-> None, repeated_requested |-> FALSE,
      key_existed |-> FALSE,       \* the summary key held an object when checked
      synthesis_result |-> << >>,  \* what get_or_synthesize_speech gave or raised
      response |-> << >> ]

\* the locals of split_text_into_chunks before it is called
NoSplit ==
    [ stage |-> "idle", original |-> "", text |-> "", max_length |-> 0,
      chunks |-> << >> ]

\* a job name Transcribe has no job for
NoJob == [ status |-> "NONE", media |-> << >> ]

\* the locals of a transcription handler that has not been invoked
NoPoll ==
    [ stage |-> "none", fn |-> "", identity_id |-> "", file_key |-> "",
      transcription_job_name |-> "", temp_file_key |-> "",
      destination_exists |-> FALSE,   \* what check_s3_file_exists returned
      found_at_check |-> FALSE,       \* the destination held an object then
      copied |-> FALSE, deleted |-> FALSE,
      exception |-> "",               \* what the handler caught
      response |-> << >> ]

Init ==
    /\ s3 = [k \in Bucket |-> NoObj]
    /\ tasks = {}
    /\ pc = [p \in Procs |-> "idle"]
    /\ call = [p \in Procs |-> NoCall]
    /\ file_exists = [p \in Procs |-> FALSE]
    /\ bedrock_response = [p \in Procs |-> None]
    /\ voice = [p \in Procs |-> None]
    /\ outcome = [p \in Procs |-> << >>]
    /\ log = [p \in Procs |-> NewLog]
    /\ settled = [k \in Bucket |-> NoObj]
    /\ started = 0
    /\ handler = [p \in Procs |-> NoRequest]
    /\ now = 0
    /\ issued = << >>
    /\ hashed = << >>
    /\ chunking = NoSplit
    /\ jobs = [name \in TranscriptionJobNames |-> NoJob]
    /\ request = [p \in Procs |-> NoPoll]

(***************************************************************************)
(* s3_utils.py                                                             *)
(***************************************************************************)
\* json.dumps(...).encode('utf-8') and json.loads(body.decode('utf-8'))
JsonDumps(value) == << "application/json", value >>
JsonLoads(object) == object[2]
IsJson(object) == Len(object) = 2 /\ object[1] = "application/json"

\* the ways s3.head_object can end for a key: the object's metadata, a 404
\* ClientError, or any other error (throttling, access denied, no network)
head_object(key) ==
    IF s3[key] # NoObj THEN {"found", "error"} ELSE {"not_found", "error"}

\* check_s3_file_exists: True when head_object returns, False on any exception
check_s3_file_exists(head) == head = "found"

Raise(p, error) ==
    /\ outcome' = [outcome EXCEPT ![p] = << "raise", error >>]
    /\ pc' = [pc EXCEPT ![p] = "done"]

\* s3.put_object(Bucket, Key, Body) by the call of invocation p
PutObject(p, key, object) ==
    /\ s3' = [s3 EXCEPT ![key] = object]
    /\ log' = [log EXCEPT ![p].puts = Append(@, << key, object >>)]

\* mutant: the JSON goes to another key than file_key
write_json_to_other_key(p, file_key, json_data_to_write) ==
    PutObject(p, CHOOSE k \in Keys : k # file_key, JsonDumps(json_data_to_write))

\* write_json_to_s3: json.dumps, then put_object at file_key
write_json_to_s3(p, file_key, json_data_to_write) ==
    PutObject(p, file_key, JsonDumps(json_data_to_write))

\* get_json_from_s3: head_object, get_object, json.loads
get_json_from_s3(file_key) == JsonLoads(s3[file_key])

(***************************************************************************)
(* s3_cache_utils.get_or_generate_bedrock_response                         *)
(***************************************************************************)
\* the other calls that missed file_key and have not written it yet
OpenMisses(p, file_key) ==
    { q \in Procs \ {p} :
        /\ call[q].fn = "generate"
        /\ call[q].file_key = file_key
        /\ pc[q] \in {"generate", "write"}
        /\ ~log[q].present_at_check }

CallGenerate(p) ==
    /\ pc[p] \in {"idle", "done"}
    /\ started < MaxCalls
    /\ \E k \in TextKeys :
          /\ call' = [call EXCEPT ![p] =
                [NoCall EXCEPT !.fn = "generate", !.file_key = k]]
          /\ log' = [log EXCEPT ![p] = [NewLog EXCEPT !.retry =
                /\ outcome[p] = << "raise", "GenerationError" >>
                /\ call[p].file_key = k]]
    /\ pc' = [pc EXCEPT ![p] = "check"]
    /\ file_exists' = [file_exists EXCEPT ![p] = FALSE]
    /\ bedrock_response' = [bedrock_response EXCEPT ![p] = None]
    /\ voice' = [voice EXCEPT ![p] = None]
    /\ outcome' = [outcome EXCEPT ![p] = << >>]
    /\ started' = started + 1
    /\ UNCHANGED << s3, tasks, settled >>
    /\ UNCHANGED << handler, now, issued, hashed, chunking, jobs, request >>

\* line 44: file_exists = s3_utils.check_s3_file_exists(bucket_name, file_key)
GenerateCheck(p) ==
    /\ pc[p] = "check"
    /\ call[p].fn = "generate"
    /\ \E head \in head_object(call[p].file_key) :
          LET key == call[p].file_key
              present == s3[key] # NoObj
              racers == IF present THEN {} ELSE OpenMisses(p, key)
          IN  /\ file_exists' = [file_exists EXCEPT ![p] = check_s3_file_exists(head)]
              /\ log' = [q \in Procs |->
                    IF q = p
                    THEN [log[p] EXCEPT !.head = head,
                                        !.present_at_check = present,
                                        !.raced = (racers # {})]
                    ELSE IF q \in racers
                         THEN [log[q] EXCEPT !.raced = TRUE]
                         ELSE log[q]]
    /\ pc' = [pc EXCEPT ![p] = IF file_exists'[p] THEN "read" ELSE "generate"]
    /\ UNCHANGED << s3, tasks, call, bedrock_response, voice, outcome,
                    settled, started >>
    /\ UNCHANGED << handler, now, issued, hashed, chunking, jobs, request >>

\* mutant: a hit writes the value it read back to the key
GenerateReadRefresh(p) ==
    /\ pc[p] = "read"
    /\ call[p].fn = "generate"
    /\ \/ /\ s3[call[p].file_key] # NoObj
          /\ IsJson(s3[call[p].file_key])
          /\ bedrock_response' =
                [bedrock_response EXCEPT ![p] = get_json_from_s3(call[p].file_key)]
          /\ outcome' = [outcome EXCEPT ![p] =
                << "return", bedrock_response'[p], file_exists[p] >>]
          /\ s3' = s3
          /\ log' = [log EXCEPT ![p].read = s3[call[p].file_key],
                                ![p].puts = Append(@,
                                    << call[p].file_key, s3[call[p].file_key] >>)]
          /\ pc' = [pc EXCEPT ![p] = "done"]
       \/ /\ Raise(p, "StoreError")
          /\ UNCHANGED << bedrock_response, log, s3 >>
    /\ UNCHANGED << tasks, call, file_exists, voice, settled, started >>
    /\ UNCHANGED << handler, now, issued, hashed, chunking, jobs, request >>

\* line 46: bedrock_response = s3_utils.get_json_from_s3(bucket_name, file_key)
\* line 50: return bedrock_response, file_exists
GenerateRead(p) ==
    /\ pc[p] = "read"
    /\ call[p].fn = "generate"
    /\ \/ /\ s3[call[p].file_key] # NoObj
          /\ IsJson(s3[call[p].file_key])
          /\ bedrock_response' =
                [bedrock_response EXCEPT ![p] = get_json_from_s3(call[p].file_key)]
          /\ outcome' = [outcome EXCEPT ![p] =
                << "return", bedrock_response'[p], file_exists[p] >>]
          /\ log' = [log EXCEPT ![p].read = s3[call[p].file_key]]
          /\ pc' = [pc EXCEPT ![p] = "done"]
       \/ /\ Raise(p, "StoreError")
          /\ UNCHANGED << bedrock_response, log >>
    /\ UNCHANGED << s3, tasks, call, file_exists, voice, settled, started >>
    /\ UNCHANGED << handler, now, issued, hashed, chunking, jobs, request >>

\* mutant: a failed generation leaves an empty placeholder at the key
GenerateInvokePlaceholder(p) ==
    /\ pc[p] = "generate"
    /\ call[p].fn = "generate"
    /\ \/ /\ \E value \in Values :
                bedrock_response' = [bedrock_response EXCEPT ![p] = value]
          /\ pc' = [pc EXCEPT ![p] = "write"]
          /\ log' = [log EXCEPT ![p].generated = @ + 1]
          /\ UNCHANGED << outcome, s3 >>
       \/ /\ Raise(p, "GenerationError")
          /\ s3' = [s3 EXCEPT ![call[p].file_key] = JsonDumps(None)]
          /\ log' = [log EXCEPT ![p].generated = @ + 1]
          /\ UNCHANGED bedrock_response
    /\ UNCHANGED << tasks, call, file_exists, voice, settled, started >>
    /\ UNCHANGED << handler, now, issued, hashed, chunking, jobs, request >>

\* line 48: bedrock_response = call_bedrock_function(*args, **kwargs)
GenerateInvoke(p) ==
    /\ pc[p] = "generate"
    /\ call[p].fn = "generate"
    /\ log' = [log EXCEPT ![p].generated = @ + 1]
    /\ \/ /\ \E value \in Values :
                bedrock_response' = [bedrock_response EXCEPT ![p] = value]
          /\ pc' = [pc EXCEPT ![p] = "write"]
          /\ UNCHANGED outcome
       \/ /\ Raise(p, "GenerationError")
          /\ UNCHANGED bedrock_response
    /\ UNCHANGED << s3, tasks, call, file_exists, voice, settled, started >>
    /\ UNCHANGED << handler, now, issued, hashed, chunking, jobs, request >>

\* a miss/miss race on file_key ends with this write of p: both racers returned
RaceEnds(p, file_key) ==
    /\ log[p].raced
    /\ \E q \in Procs \ {p} :
          /\ log[q].raced
          /\ call[q].fn = "generate"
          /\ call[q].file_key = file_key
          /\ pc[q] = "done"
          /\ outcome[q][1] = "return"

\* mutant: a failed put_object is swallowed and the value returned all the same
GenerateWriteSwallow(p) ==
    /\ pc[p] = "write"
    /\ call[p].fn = "generate"
    /\ \/ /\ write_json_to_s3(p, call[p].file_key, bedrock_response[p])
          /\ settled' = IF RaceEnds(p, call[p].file_key)
                        THEN [settled EXCEPT ![call[p].file_key] =
                                  s3'[call[p].file_key]]
                        ELSE settled
       \/ UNCHANGED << s3, log, settled >>
    /\ outcome' = [outcome EXCEPT ![p] =
          << "return", bedrock_response[p], file_exists[p] >>]
    /\ pc' = [pc EXCEPT ![p] = "done"]
    /\ UNCHANGED << tasks, call, file_exists, bedrock_response, voice, started >>
    /\ UNCHANGED << handler, now, issued, hashed, chunking, jobs, request >>

\* lines 49-50: s3_utils.write_json_to_s3(...); return bedrock_response, file_exists
GenerateWrite(p) ==
    /\ pc[p] = "write"
    /\ call[p].fn = "generate"
    /\ \/ /\ write_json_to_s3(p, call[p].file_key, bedrock_response[p])
          /\ outcome' = [outcome EXCEPT ![p] =
                << "return", bedrock_response[p], file_exists[p] >>]
          /\ pc' = [pc EXCEPT ![p] = "done"]
          /\ settled' = IF RaceEnds(p, call[p].file_key)
                        THEN [settled EXCEPT ![call[p].file_key] =
                                  s3'[call[p].file_key]]
                        ELSE settled
       \/ /\ Raise(p, "StoreError")
          /\ UNCHANGED << s3, log, settled >>
    /\ UNCHANGED << tasks, call, file_exists, bedrock_response, voice, started >>
    /\ UNCHANGED << handler, now, issued, hashed, chunking, jobs, request >>

(***************************************************************************)
(* polly_utils.py                                                          *)
(***************************************************************************)
\* line 151: polly_supported_languages = {voice['LanguageCode'] for voice in ...}
polly_supported_languages ==
    { PollyVoices[i].LanguageCode : i \in 1..Len(PollyVoices) }

\* what polly.describe_voices(LanguageCode=language_code) lists
VoicesFor(language_code) ==
    SelectSeq(PollyVoices, LAMBDA v : v.LanguageCode = language_code)

\* mutant: the synchronous limit is one character too low
SynthesisModeShort(text_length, async_processing) ==
    IF text_length < SYNTHESIZE_MAX_LENGTH - 1 /\ ~async_processing
    THEN "sync"
    ELSE IF text_length < ASYNC_SYNTHESIZE_MAX_LENGTH
         THEN "async"
         ELSE "too_long"

\* mutant: the synchronous limit is inclusive
SynthesisModeInclusive(text_length, async_processing) ==
    IF text_length <= SYNTHESIZE_MAX_LENGTH /\ ~async_processing
    THEN "sync"
    ELSE IF text_length < ASYNC_SYNTHESIZE_MAX_LENGTH
         THEN "async"
         ELSE "too_long"

\* mutant: async_processing is not looked at
SynthesisModeIgnoresFlag(text_length, async_processing) ==
    IF text_length < SYNTHESIZE_MAX_LENGTH
    THEN "sync"
    ELSE IF text_length < ASYNC_SYNTHESIZE_MAX_LENGTH
         THEN "async"
         ELSE "too_long"

\* mutant: the asynchronous limit is inclusive
SynthesisModeAsyncInclusive(text_length, async_processing) ==
    IF text_length < SYNTHESIZE_MAX_LENGTH /\ ~async_processing
    THEN "sync"
    ELSE IF text_length <= ASYNC_SYNTHESIZE_MAX_LENGTH
         THEN "async"
         ELSE "too_long"

\* lines 158, 173, 185: which branch synthesize_speech takes
SynthesisMode(text_length, async_processing) ==
    IF text_length < SYNTHESIZE_MAX_LENGTH /\ ~async_processing
    THEN "sync"
    ELSE IF text_length < ASYNC_SYNTHESIZE_MAX_LENGTH
         THEN "async"
         ELSE "too_long"

\* the audio object process_audio_stream_and_upload_to_s3 puts
AudioObject == << "audio/mpeg" >>

LogPolly(p, api) == log' = [log EXCEPT ![p].polly = Append(@, api)]

(***************************************************************************)
(* s3_cache_utils.get_or_synthesize_speech and polly_utils.synthesize_speech *)
(***************************************************************************)
CallSynthesize(p) ==
    /\ pc[p] \in {"idle", "done"}
    /\ started < MaxCalls
    /\ \E k \in AudioKeys, n \in TextLengths, l \in LanguageCodes, a \in BOOLEAN :
          call' = [call EXCEPT ![p] =
                [ fn |-> "synthesize", file_key |-> k, text_length |-> n,
                  language_code |-> l, async_processing |-> a ]]
    /\ pc' = [pc EXCEPT ![p] = "check"]
    /\ file_exists' = [file_exists EXCEPT ![p] = FALSE]
    /\ bedrock_response' = [bedrock_response EXCEPT ![p] = None]
    /\ voice' = [voice EXCEPT ![p] = None]
    /\ outcome' = [outcome EXCEPT ![p] = << >>]
    /\ log' = [log EXCEPT ![p] = NewLog]
    /\ started' = started + 1
    /\ UNCHANGED << s3, tasks, settled >>
    /\ UNCHANGED << handler, now, issued, hashed, chunking, jobs, request >>

\* s3_cache_utils.py lines 73-78
SynthesizeCheck(p) ==
    /\ pc[p] = "check"
    /\ call[p].fn = "synthesize"
    /\ \E head \in head_object(call[p].file_key) :
          /\ file_exists' = [file_exists EXCEPT ![p] = check_s3_file_exists(head)]
          /\ log' = [log EXCEPT ![p].head = head,
                                ![p].present_at_check = (s3[call[p].file_key] # NoObj)]
    /\ IF file_exists'[p]
       THEN /\ outcome' = [outcome EXCEPT ![p] =
                   << SYNTHESIS_RESULT_AUDIO_KEY, call[p].file_key >>]
            /\ pc' = [pc EXCEPT ![p] = "done"]
       ELSE /\ pc' = [pc EXCEPT ![p] = "languages"]
            /\ UNCHANGED outcome
    /\ UNCHANGED << s3, tasks, call, bedrock_response, voice, settled, started >>
    /\ UNCHANGED << handler, now, issued, hashed, chunking, jobs, request >>

\* mutant: the language is not checked against the languages Polly lists
DescribeVoicesAnyLanguage(p) ==
    /\ pc[p] = "languages"
    /\ LogPolly(p, "describe_voices")
    /\ \/ /\ pc' = [pc EXCEPT ![p] = "voice"]
          /\ UNCHANGED outcome
       \/ Raise(p, "PollyError")
    /\ UNCHANGED << s3, tasks, call, file_exists, bedrock_response, voice,
                    settled, started >>
    /\ UNCHANGED << handler, now, issued, hashed, chunking, jobs, request >>

\* polly_utils.py lines 150-153, 191-192
DescribeVoices(p) ==
    /\ pc[p] = "languages"
    /\ LogPolly(p, "describe_voices")
    /\ \/ IF call[p].language_code \in polly_supported_languages
          THEN /\ pc' = [pc EXCEPT ![p] = "voice"]
               /\ UNCHANGED outcome
          ELSE Raise(p, "UnsupportedLanguage")
       \/ Raise(p, "PollyError")
    /\ UNCHANGED << s3, tasks, call, file_exists, bedrock_response, voice,
                    settled, started >>
    /\ UNCHANGED << handler, now, issued, hashed, chunking, jobs, request >>

\* mutant: the default voice is the last one Polly lists
GetDefaultVoiceLast(p) ==
    /\ pc[p] = "voice"
    /\ LogPolly(p, "describe_voices_for_language")
    /\ \/ \E voices \in {VoicesFor(call[p].language_code), << >>} :
             IF Len(voices) > 0
             THEN /\ voice' = [voice EXCEPT ![p] = voices[Len(voices)].Id]
                  /\ LET mode == SynthesisMode(call[p].text_length,
                                               call[p].async_processing)
                     IN  IF mode = "sync"
                         THEN /\ pc' = [pc EXCEPT ![p] = "synthesize"]
                              /\ UNCHANGED outcome
                         ELSE IF mode = "async"
                         THEN /\ pc' = [pc EXCEPT ![p] = "start_task"]
                              /\ UNCHANGED outcome
                         ELSE Raise(p, "TextTooLong")
             ELSE /\ Raise(p, "NoVoiceAvailable")
                  /\ UNCHANGED voice
       \/ /\ Raise(p, "PollyError")
          /\ UNCHANGED voice
    /\ UNCHANGED << s3, tasks, call, file_exists, bedrock_response, settled,
                    started >>
    /\ UNCHANGED << handler, now, issued, hashed, chunking, jobs, request >>

\* polly_utils.py lines 155-158, 173, 185-186 with get_default_voice_for_language
GetDefaultVoice(p) ==
    /\ pc[p] = "voice"
    /\ LogPolly(p, "describe_voices_for_language")
    /\ \/ \E voices \in {VoicesFor(call[p].language_code), << >>} :
             IF Len(voices) > 0
             THEN /\ voice' = [voice EXCEPT ![p] = voices[1].Id]
                  /\ LET mode == SynthesisMode(call[p].text_length,
                                               call[p].async_processing)
                     IN  IF mode = "sync"
                         THEN /\ pc' = [pc EXCEPT ![p] = "synthesize"]
                              /\ UNCHANGED outcome
                         ELSE IF mode = "async"
                         THEN /\ pc' = [pc EXCEPT ![p] = "start_task"]
                              /\ UNCHANGED outcome
                         ELSE Raise(p, "TextTooLong")
             ELSE /\ Raise(p, "NoVoiceAvailable")
                  /\ UNCHANGED voice
       \/ /\ Raise(p, "PollyError")
          /\ UNCHANGED voice
    /\ UNCHANGED << s3, tasks, call, file_exists, bedrock_response, settled,
                    started >>
    /\ UNCHANGED << handler, now, issued, hashed, chunking, jobs, request >>

\* mutant: a failed synchronous call falls back to the asynchronous task
SynthesizeSpeechFallsBack(p) ==
    /\ pc[p] = "synthesize"
    /\ LogPolly(p, "synthesize_speech")
    /\ \/ /\ pc' = [pc EXCEPT ![p] = "upload"]
          /\ UNCHANGED outcome
       \/ /\ pc' = [pc EXCEPT ![p] = "start_task"]
          /\ UNCHANGED outcome
       \/ Raise(p, "PollyError")
    /\ UNCHANGED << s3, tasks, call, file_exists, bedrock_response, voice,
                    settled, started >>
    /\ UNCHANGED << handler, now, issued, hashed, chunking, jobs, request >>

\* polly_utils.py lines 159-172: the synchronous call and its response
SynthesizeSpeech(p) ==
    /\ pc[p] = "synthesize"
    /\ LogPolly(p, "synthesize_speech")
    /\ \/ /\ pc' = [pc EXCEPT ![p] = "upload"]
          /\ UNCHANGED outcome
       \/ Raise(p, "NoAudioData")
       \/ Raise(p, "PollyError")
    /\ UNCHANGED << s3, tasks, call, file_exists, bedrock_response, voice,
                    settled, started >>
    /\ UNCHANGED << handler, now, issued, hashed, chunking, jobs, request >>

\* mutant: what was read before the stream failed is stored
ProcessAudioStreamStoresPartial(p) ==
    /\ pc[p] = "upload"
    /\ \/ /\ PutObject(p, call[p].file_key, AudioObject)
          /\ outcome' = [outcome EXCEPT ![p] =
                << SYNTHESIS_RESULT_AUDIO_KEY, call[p].file_key >>]
          /\ pc' = [pc EXCEPT ![p] = "done"]
       \/ /\ Raise(p, "StreamError")
          /\ PutObject(p, call[p].file_key, << "audio/mpeg", "partial" >>)
       \/ /\ Raise(p, "StoreError")
          /\ UNCHANGED << s3, log >>
    /\ UNCHANGED << tasks, call, file_exists, bedrock_response, voice, settled,
                    started >>
    /\ UNCHANGED << handler, now, issued, hashed, chunking, jobs, request >>

\* polly_utils.py lines 169-170, 252-283: read the whole stream, then put_object
ProcessAudioStream(p) ==
    /\ pc[p] = "upload"
    /\ \/ /\ PutObject(p, call[p].file_key, AudioObject)
          /\ outcome' = [outcome EXCEPT ![p] =
                << SYNTHESIS_RESULT_AUDIO_KEY, call[p].file_key >>]
          /\ pc' = [pc EXCEPT ![p] = "done"]
       \/ /\ Raise(p, "StreamError")
          /\ UNCHANGED << s3, log >>
       \/ /\ Raise(p, "StoreError")
          /\ UNCHANGED << s3, log >>
    /\ UNCHANGED << tasks, call, file_exists, bedrock_response, voice, settled,
                    started >>
    /\ UNCHANGED << handler, now, issued, hashed, chunking, jobs, request >>

\* polly_utils.py lines 174-184: the asynchronous task
StartSpeechSynthesisTask(p) ==
    /\ pc[p] = "start_task"
    /\ LogPolly(p, "start_speech_synthesis_task")
    /\ \/ LET task_id == Cardinality(tasks) + 1
          IN  /\ tasks' = tasks \cup
                    {[ TaskId |-> task_id,
                       OutputS3KeyPrefix |-> call[p].file_key ]}
              /\ outcome' = [outcome EXCEPT ![p] =
                    << SYNTHESIS_RESULT_TASK_ID, task_id >>]
              /\ pc' = [pc EXCEPT ![p] = "done"]
       \/ /\ Raise(p, "PollyError")
          /\ UNCHANGED tasks
    /\ UNCHANGED << s3, call, file_exists, bedrock_response, voice, settled,
                    started >>
    /\ UNCHANGED << handler, now, issued, hashed, chunking, jobs, request >>

\* the key a task writes when it completes (the OutputUri check-audio reads)
OutputKey(task) ==
    get_synthesis_file_key(task.OutputS3KeyPrefix, task.TaskId, MP3)

\* the task's status is COMPLETED: its audio is in the bucket
Completed(task) == s3[OutputKey(task)] # NoObj

\* Polly finishes a task: it stores the audio under the prefix it was given
CompleteSpeechSynthesisTask ==
    /\ \E task \in tasks :
          /\ ~Completed(task)
          /\ s3' = [s3 EXCEPT ![OutputKey(task)] = AudioObject]
    /\ UNCHANGED << tasks, pc, call, file_exists, bedrock_response, voice,
                    outcome, log, settled, started >>
    /\ UNCHANGED << handler, now, issued, hashed, chunking, jobs, request >>

Next ==
    \E p \in Procs :
       \/ CallGenerate(p)
       \/ GenerateCheck(p)
       \/ GenerateRead(p)
       \/ GenerateInvoke(p)
       \/ GenerateWrite(p)
       \/ CallSynthesize(p)
       \/ SynthesizeCheck(p)
       \/ DescribeVoices(p)
       \/ GetDefaultVoice(p)
       \/ SynthesizeSpeech(p)
       \/ ProcessAudioStream(p)
       \/ StartSpeechSynthesisTask(p)

Spec == Init /\ [][Next]_vars

(***************************************************************************)
(* Calls of get_or_synthesize_speech together with Polly, which completes  *)
(* the tasks it was given                                                  *)
(***************************************************************************)
NextAudio ==
    \/ \E p \in Procs :
          \/ CallSynthesize(p)
          \/ SynthesizeCheck(p)
          \/ DescribeVoices(p)
          \/ GetDefaultVoice(p)
          \/ SynthesizeSpeech(p)
          \/ ProcessAudioStream(p)
          \/ StartSpeechSynthesisTask(p)
    \/ CompleteSpeechSynthesisTask

SpecAudio == Init /\ [][NextAudio]_vars

(***************************************************************************)
(* Calls of get_file_key, by any handler of any invocation, and the clock  *)
(***************************************************************************)
GetFileKey ==
    /\ Len(issued) < MaxKeyCalls
    /\ \E transcription_job_name \in JobNames, folder_path \in FolderPaths,
          identity_id \in IdentityIds, output_format \in OutputFormats,
          model_id \in ModelIds, language \in Languages,
          timestamp \in Timestamps :
          issued' = Append(issued,
              [ request |-> << identity_id, folder_path, transcription_job_name,
                               model_id, language, output_format >>,
                timestamp |-> timestamp,
                key |-> get_file_key(transcription_job_name, folder_path,
                                     identity_id, output_format, model_id,
                                     language, timestamp, now) ])
    /\ UNCHANGED << s3, tasks, pc, call, file_exists, bedrock_response, voice,
                    outcome, log, settled, started, handler, now >>
    /\ UNCHANGED << hashed, chunking, jobs, request >>

\* the clock moves on to its next reading
Tick ==
    /\ now < MaxTick
    /\ now' = now + 1
    /\ UNCHANGED << s3, tasks, pc, call, file_exists, bedrock_response, voice,
                    outcome, log, settled, started, handler, issued >>
    /\ UNCHANGED << hashed, chunking, jobs, request >>

NextKeys == GetFileKey \/ Tick

SpecKeys == Init /\ [][NextKeys]_vars

(***************************************************************************)
(* Calls of get_or_generate_bedrock_response one after the other: a call   *)
(* starts only when no other call is running.                              *)
(***************************************************************************)
CallGenerateAlone(p) ==
    /\ \A q \in Procs \ {p} : pc[q] \in {"idle", "done"}
    /\ CallGenerate(p)

NextSequential ==
    \E p \in Procs :
       \/ CallGenerateAlone(p)
       \/ GenerateCheck(p)
       \/ GenerateRead(p)
       \/ GenerateInvoke(p)
       \/ GenerateWrite(p)

SpecSequential == Init /\ [][NextSequential]_vars

(***************************************************************************)
(* response_utils.py                                                       *)
(***************************************************************************)
\* the exceptions of the model that are Python ValueErrors; "ClientError404"
\* is the ClientError with Error.Code "404" that s3.copy raises when its
\* head_object finds no source; the others go the default way
ValueErrors == {"UnsupportedLanguage", "NoVoiceAvailable", "TextTooLong",
                "NoAudioData"}

format_response(code, body) == [ statusCode |-> code, body |-> JsonDumps(body) ]

format_exception(exception) ==
    IF exception \in ValueErrors
    THEN format_response(UNPROCESSABLE_CONTENT_CODE,
             [ code |-> UNPROCESSABLE_CONTENT_CODE,
               status |-> "UNPROCESSABLE_CONTENT", message |-> exception ])
    ELSE IF exception = "ClientError404"
    THEN format_response("404",
             [ code |-> "404", status |-> "INTERNAL_SERVER_ERROR",
               message |-> "Not Found" ])
    ELSE format_response(INTERNAL_SERVER_ERROR_CODE,
             [ code |-> INTERNAL_SERVER_ERROR_CODE,
               status |-> "INTERNAL_SERVER_ERROR",
               message |-> "Internal Server Error." ])

\* the size compared with MAX_RESPONSE_SIZE is sys.getsizeof of two small
\* dicts, whatever the value: the value is always part of the body
send_response_with_file_key(value, file_key) ==
    format_response(OK_CODE, [ fileKey |-> file_key, value |-> value ])

send_response_with_file_key_and_audio_key(value, file_key, audio_key) ==
    format_response(OK_CODE,
        [ fileKey |-> file_key, audioFileKey |-> audio_key, value |-> value ])

send_response_speech_synthesis(value, file_key, task_id) ==
    format_response(OK_CODE,
        [ fileKey |-> file_key, taskId |-> task_id, value |-> value ])

(***************************************************************************)
(* get-summary/lambda-handler.py: handler                                  *)
(***************************************************************************)
\* lines 127-133: the parameters, the transcription, the summary key and
\* the call of get_or_generate_bedrock_response
HandlerGetSummary(p) ==
    /\ handler[p].stage \in {"none", "responded"}
    /\ pc[p] \in {"idle", "done"}
    /\ started < MaxRequests
    /\ started' = started + 1
    /\ \E requested_language \in LanguageCodes :
          \/ /\ handler' = [handler EXCEPT ![p] =
                   [NoRequest EXCEPT !.stage = "text",
                                     !.language = requested_language,
                                     !.summary_key = SummaryKey(requested_language)]]
             /\ call' = [call EXCEPT ![p] =
                   [NoCall EXCEPT !.fn = "generate",
                                  !.file_key = SummaryKey(requested_language)]]
             /\ pc' = [pc EXCEPT ![p] = "check"]
             /\ file_exists' = [file_exists EXCEPT ![p] = FALSE]
             /\ bedrock_response' = [bedrock_response EXCEPT ![p] = None]
             /\ voice' = [voice EXCEPT ![p] = None]
             /\ outcome' = [outcome EXCEPT ![p] = << >>]
             /\ log' = [log EXCEPT ![p] = NewLog]
          \/ /\ handler' = [handler EXCEPT ![p] =
                   [NoRequest EXCEPT !.stage = "responded",
                                     !.language = requested_language,
                                     !.response = format_exception("StoreError")]]
             /\ UNCHANGED << call, pc, file_exists, bedrock_response, voice,
                             outcome, log >>
    /\ UNCHANGED << s3, tasks, settled, now, issued >>
    /\ UNCHANGED << hashed, chunking, jobs, request >>

\* lines 134-137: summary, repeated_requested = ...; the audio key and the
\* call of get_or_synthesize_speech; lines 147-148 when the first call raised
HandlerSynthesize(p) ==
    /\ handler[p].stage = "text"
    /\ pc[p] = "done"
    /\ IF outcome[p][1] = "raise"
       THEN /\ handler' = [handler EXCEPT
                   ![p].stage = "responded",
                   ![p].response = format_exception(outcome[p][2])]
            /\ UNCHANGED << call, pc, file_exists, bedrock_response, voice,
                            outcome, log >>
       ELSE /\ handler' = [handler EXCEPT
                   ![p].stage = "audio",
                   ![p].summary = outcome[p][2],
                   ![p].repeated_requested = outcome[p][3],
                   ![p].key_existed = log[p].present_at_check,
                   ![p].audio_key = SummaryAudioKey(handler[p].language)]
            /\ call' = [call EXCEPT ![p] =
                   [ fn |-> "synthesize",
                     file_key |-> SummaryAudioKey(handler[p].language),
                     text_length |-> len(outcome[p][2]),
                     language_code |-> handler[p].language,
                     async_processing |-> outcome[p][3] ]]
            /\ pc' = [pc EXCEPT ![p] = "check"]
            /\ file_exists' = [file_exists EXCEPT ![p] = FALSE]
            /\ bedrock_response' = [bedrock_response EXCEPT ![p] = None]
            /\ voice' = [voice EXCEPT ![p] = None]
            /\ outcome' = [outcome EXCEPT ![p] = << >>]
            /\ log' = [log EXCEPT ![p] = NewLog]
    /\ UNCHANGED << s3, tasks, settled, started, now, issued >>
    /\ UNCHANGED << hashed, chunking, jobs, request >>

\* mutant: a failed synthesis fails the request
HandlerRespondFailing(p) ==
    /\ handler[p].stage = "audio"
    /\ pc[p] = "done"
    /\ handler' = [handler EXCEPT
          ![p].stage = "responded",
          ![p].synthesis_result = outcome[p],
          ![p].response =
              IF outcome[p][1] = SYNTHESIS_RESULT_TASK_ID
              THEN send_response_speech_synthesis(
                       handler[p].summary, handler[p].summary_key, outcome[p][2])
              ELSE IF outcome[p][1] = SYNTHESIS_RESULT_AUDIO_KEY
              THEN send_response_with_file_key_and_audio_key(
                       handler[p].summary, handler[p].summary_key, outcome[p][2])
              ELSE format_exception(outcome[p][2])]
    /\ UNCHANGED << s3, tasks, pc, call, file_exists, bedrock_response, voice,
                    outcome, log, settled, started, now, issued >>
    /\ UNCHANGED << hashed, chunking, jobs, request >>

\* lines 138-146: the response with the task id or the audio key, or, when
\* get_or_synthesize_speech raised, the response with the summary alone
HandlerRespond(p) ==
    /\ handler[p].stage = "audio"
    /\ pc[p] = "done"
    /\ handler' = [handler EXCEPT
          ![p].stage = "responded",
          ![p].synthesis_result = outcome[p],
          ![p].response =
              IF outcome[p][1] = SYNTHESIS_RESULT_TASK_ID
              THEN send_response_speech_synthesis(
                       handler[p].summary, handler[p].summary_key, outcome[p][2])
              ELSE IF outcome[p][1] = SYNTHESIS_RESULT_AUDIO_KEY
              THEN send_response_with_file_key_and_audio_key(
                       handler[p].summary, handler[p].summary_key, outcome[p][2])
              ELSE send_response_with_file_key(
                       handler[p].summary, handler[p].summary_key)]
    /\ UNCHANGED << s3, tasks, pc, call, file_exists, bedrock_response, voice,
                    outcome, log, settled, started, now, issued >>
    /\ UNCHANGED << hashed, chunking, jobs, request >>

NextHandlers ==
    \E p \in Procs :
       \/ HandlerGetSummary(p)
       \/ GenerateCheck(p)
       \/ GenerateRead(p)
       \/ GenerateInvoke(p)
       \/ GenerateWrite(p)
       \/ HandlerSynthesize(p)
       \/ SynthesizeCheck(p)
       \/ DescribeVoices(p)
       \/ GetDefaultVoice(p)
       \/ SynthesizeSpeech(p)
       \/ ProcessAudioStream(p)
       \/ StartSpeechSynthesisTask(p)
       \/ HandlerRespond(p)

SpecHandlers == Init /\ [][NextHandlers]_vars

(***************************************************************************)
(* Calls of hash_utils.deterministic_hash and the clock                    *)
(***************************************************************************)
\* one call of deterministic_hash, as start-transcription makes it with the
\* fileKey of the request body
DeterministicHash ==
    /\ Len(hashed) < MaxHashCalls
    /\ \E file_key \in FileKeys :
          hashed' = Append(hashed,
              [ file_key |-> file_key, now |-> now,
                result |-> deterministic_hash(file_key) ])
    /\ UNCHANGED << s3, tasks, pc, call, file_exists, bedrock_response, voice,
                    outcome, log, settled, started, handler, now, issued,
                    chunking >>
    /\ UNCHANGED << jobs, request >>

NextHash == DeterministicHash \/ Tick

SpecHash == Init /\ [][NextHash]_vars

(***************************************************************************)
(* polly_utils.split_text_into_chunks                                      *)
(***************************************************************************)
\* the longest text that is split, and the greatest max_length
MaxTextLength == 4
MaxChunkLength == 3

\* the texts are made of a letter, the period and the blank
TextAlphabet == {"a", ".", " "}

\* the characters str.strip() removes, of those the texts hold
Whitespace == {" "}

RECURSIVE StringsUpTo(_)
StringsUpTo(n) ==
    IF n = 0
    THEN {""}
    ELSE LET shorter == StringsUpTo(n - 1)
         IN  shorter \cup { str \o char : str \in shorter, char \in TextAlphabet }

Texts == StringsUpTo(MaxTextLength)

\* max_length is a number of characters: 0 is one of them
MaxLengths == 0..MaxChunkLength

\* the loop is cut off after this many iterations: a text of MaxTextLength
\* characters is never cut more often when every cut takes a character
MaxIterations == MaxTextLength

\* str.rfind(sub): the highest index, counted from 0, at which sub occurs
\* in str, and -1 when it occurs nowhere
rfind(str, sub) ==
    LET occurrences == { i \in 1..(Len(str) - Len(sub) + 1) :
                            SubSeq(str, i, i + Len(sub) - 1) = sub }
    IN  IF occurrences = {}
        THEN -1
        ELSE (CHOOSE i \in occurrences : \A j \in occurrences : j <= i) - 1

\* str.lstrip(): str without its leading whitespace
RECURSIVE lstrip(_)
lstrip(str) ==
    IF str # "" /\ SubSeq(str, 1, 1) \in Whitespace
    THEN lstrip(SubSeq(str, 2, Len(str)))
    ELSE str

\* str.strip()
strip(str) == lstrip(rstrip(str, Whitespace))

\* mutant: the cut is made before the period, not after it
split_index_before_period(remaining, max_length) ==
    LET index == rfind(SubSeq(remaining, 1, max_length), ".")
    IN  IF index <= 0 THEN max_length ELSE index

\* mutant: without a period the cut is made one character after max_length
split_index_too_long(remaining, max_length) ==
    LET index == rfind(SubSeq(remaining, 1, max_length), ".") + 1
    IN  IF index = 0 THEN max_length + 1 ELSE index

\* lines 114-116: where the remaining text, longer than max_length, is cut
split_index(remaining, max_length) ==
    LET index == rfind(SubSeq(remaining, 1, max_length), ".") + 1
    IN  IF index = 0 THEN max_length ELSE index

\* a call of split_text_into_chunks: line 112
CallSplitText ==
    /\ chunking.stage \in {"idle", "returned"}
    /\ \E str \in Texts, max_length \in MaxLengths :
          chunking' = [ stage |-> "loop", original |-> str, text |-> str,
                        max_length |-> max_length, chunks |-> << >> ]
    /\ UNCHANGED << s3, tasks, pc, call, file_exists, bedrock_response, voice,
                    outcome, log, settled, started, handler, now, issued,
                    hashed >>
    /\ UNCHANGED << jobs, request >>

\* lines 113-118: one iteration of the while loop
SplitLoop ==
    /\ chunking.stage = "loop"
    /\ Len(chunking.text) > chunking.max_length
    /\ Len(chunking.chunks) < MaxIterations
    /\ LET index == split_index(chunking.text, chunking.max_length)
       IN  chunking' = [chunking EXCEPT
               !.chunks = Append(@, strip(SubSeq(chunking.text, 1, index))),
               !.text = SubSeq(chunking.text, index + 1, Len(chunking.text))]
    /\ UNCHANGED << s3, tasks, pc, call, file_exists, bedrock_response, voice,
                    outcome, log, settled, started, handler, now, issued,
                    hashed >>
    /\ UNCHANGED << jobs, request >>

\* lines 113, 119-120: the loop is left, the rest is the last chunk
SplitReturn ==
    /\ chunking.stage = "loop"
    /\ ~(Len(chunking.text) > chunking.max_length)
    /\ chunking' = [chunking EXCEPT
          !.stage = "returned",
          !.chunks = Append(@, strip(chunking.text))]
    /\ UNCHANGED << s3, tasks, pc, call, file_exists, bedrock_response, voice,
                    outcome, log, settled, started, handler, now, issued,
                    hashed >>
    /\ UNCHANGED << jobs, request >>

NextChunks == CallSplitText \/ SplitLoop \/ SplitReturn

SpecChunks == Init /\ [][NextChunks]_vars

(***************************************************************************)
(* start-transcription/lambda-handler.py                                   *)
(***************************************************************************)
\* the transcript Transcribe makes of a media file
TranscriptOf(media) == JsonDumps([ transcript_of |-> media ])

\* the response of a handler that has returned
Responded(p, fn, identity_id, file_key, transcription_job_name, response) ==
    request' = [request EXCEPT ![p] =
        [NoPoll EXCEPT !.stage = "responded", !.fn = fn,
                       !.identity_id = identity_id, !.file_key = file_key,
                       !.transcription_job_name = transcription_job_name,
                       !.response = response]]

\* the handler caught an exception: return format_exception(e)
Caught(p, fn, identity_id, file_key, transcription_job_name, exception) ==
    request' = [request EXCEPT ![p] =
        [NoPoll EXCEPT !.stage = "responded", !.fn = fn,
                       !.identity_id = identity_id, !.file_key = file_key,
                       !.transcription_job_name = transcription_job_name,
                       !.exception = exception,
                       !.response = format_exception(exception)]]

\* the exceptions of the services: Cognito, Transcribe (other than the
\* ConflictException of an existing job name) and S3
ServiceErrors == {"CognitoError", "TranscribeError", "StoreError",
                  "ClientError404"}

\* handler, lines 124-137, with start_transcription_job, lines 83-100: the
\* job name, the identity, the call of Transcribe and the response
StartTranscription(p) ==
    /\ request[p].stage \in {"none", "responded"}
    /\ started < MaxTranscriptionRequests
    /\ started' = started + 1
    /\ \E identity_id \in Identities, file_key \in MediaFileKeys :
          LET hash == deterministic_hash(file_key)
              transcription_job_name == hash[2]
          IN  IF hash[1] = "raise"
              THEN /\ Caught(p, "start", identity_id, file_key, "", hash[2])
                   /\ UNCHANGED jobs
              ELSE \/ /\ Caught(p, "start", identity_id, file_key, "", "CognitoError")
                      /\ UNCHANGED jobs
                   \/ /\ Caught(p, "start", identity_id, file_key, "", "TranscribeError")
                      /\ UNCHANGED jobs
                   \/ /\ jobs' =
                            IF jobs[transcription_job_name].status = "NONE"
                            THEN [jobs EXCEPT ![transcription_job_name] =
                                    [ status |-> "IN_PROGRESS",
                                      media |-> << identity_id, file_key >> ]]
                            ELSE jobs
                      /\ Responded(p, "start", identity_id, file_key,
                             transcription_job_name,
                             format_response(OK_CODE,
                                 [ transcriptionJobName |->
                                      transcription_job_name ]))
    /\ UNCHANGED << s3, tasks, pc, call, file_exists, bedrock_response, voice,
                    outcome, log, settled, handler, now, issued, hashed,
                    chunking >>

\* Transcribe ends a job: it leaves the transcript of the job's media at
\* OutputKey followed by the job name, or the job fails
TranscribeEndsJob ==
    /\ \E name \in TranscriptionJobNames :
          /\ jobs[name].status = "IN_PROGRESS"
          /\ \/ /\ jobs' = [jobs EXCEPT ![name].status = COMPLETED_STATUS]
                /\ s3' = [s3 EXCEPT ![TempFileKey(name)] =
                                        TranscriptOf(jobs[name].media)]
             \/ /\ jobs' = [jobs EXCEPT ![name].status = "FAILED"]
                /\ UNCHANGED s3
    /\ UNCHANGED << tasks, pc, call, file_exists, bedrock_response, voice,
                    outcome, log, settled, started, handler, now, issued,
                    hashed, chunking, request >>

(***************************************************************************)
(* check-transcription/lambda-handler.py and s3_utils.move_s3_object       *)
(***************************************************************************)
\* the response of check-transcription for a completed job
CompletedResponse(file_key) ==
    format_response(OK_CODE, [ status |-> COMPLETED_STATUS,
                               language |-> "en-US", fileKey |-> file_key ])

\* handler, lines 64-70 and 78-87: the job, its status, the identity and the
\* two keys; the call of move_s3_object follows
CheckTranscription(p) ==
    /\ request[p].stage \in {"none", "responded"}
    /\ started < MaxTranscriptionRequests
    /\ started' = started + 1
    /\ \E identity_id \in Identities,
          transcription_job_name \in TranscriptionJobNames :
          \/ Caught(p, "check", identity_id, "", transcription_job_name, "TranscribeError")
          \/ /\ jobs[transcription_job_name].status = COMPLETED_STATUS
             /\ \/ Caught(p, "check", identity_id, "", transcription_job_name, "CognitoError")
                \/ request' = [request EXCEPT ![p] =
                      [NoPoll EXCEPT
                          !.stage = "move_check", !.fn = "check",
                          !.identity_id = identity_id,
                          !.transcription_job_name = transcription_job_name,
                          !.temp_file_key = TempFileKey(transcription_job_name),
                          !.file_key = TranscriptionFileKey(
                                           transcription_job_name, identity_id)]]
          \/ /\ jobs[transcription_job_name].status
                   \in {"IN_PROGRESS", "FAILED"}
             /\ Responded(p, "check", identity_id, "", transcription_job_name,
                    format_response(PROCESSING_CODE,
                        [ status |-> "PROCESSING",
                          message |-> "Video is still ongoing the transcription process." ]))
    /\ UNCHANGED << s3, tasks, pc, call, file_exists, bedrock_response, voice,
                    outcome, log, settled, handler, now, issued, hashed,
                    chunking, jobs >>

\* move_s3_object, lines 178-179: check_s3_file_exists of the destination;
\* when it returns True the handler responds, lines 73-77
MoveCheck(p) ==
    /\ request[p].stage = "move_check"
    /\ \E head \in head_object(request[p].file_key) :
          request' = [request EXCEPT
              ![p].destination_exists = check_s3_file_exists(head),
              ![p].found_at_check = (s3[request[p].file_key] # NoObj),
              ![p].stage = IF check_s3_file_exists(head)
                           THEN "responded" ELSE "copy",
              ![p].response = IF check_s3_file_exists(head)
                              THEN CompletedResponse(request[p].file_key)
                              ELSE << >>]
    /\ UNCHANGED << s3, tasks, pc, call, file_exists, bedrock_response, voice,
                    outcome, log, settled, started, handler, now, issued,
                    hashed, chunking, jobs >>

\* move_s3_object, lines 181-184 and 189-191: s3.copy of the source to the
\* destination; check-transcription lines 88-89 when it raises
MoveCopy(p) ==
    /\ request[p].stage = "copy"
    /\ \/ /\ s3[request[p].temp_file_key] # NoObj
          /\ s3' = [s3 EXCEPT ![request[p].file_key] =
                                  s3[request[p].temp_file_key]]
          /\ request' = [request EXCEPT ![p].copied = TRUE,
                                        ![p].stage = "delete"]
       \/ /\ request' = [request EXCEPT
                ![p].stage = "responded",
                ![p].exception = IF s3[request[p].temp_file_key] # NoObj
                                 THEN "StoreError" ELSE "ClientError404",
                ![p].response = format_exception(
                    IF s3[request[p].temp_file_key] # NoObj
                    THEN "StoreError" ELSE "ClientError404")]
          /\ UNCHANGED s3
    /\ UNCHANGED << tasks, pc, call, file_exists, bedrock_response, voice,
                    outcome, log, settled, started, handler, now, issued,
                    hashed, chunking, jobs >>

\* move_s3_object, lines 186-191: s3.delete_object of the source; the
\* handler then responds, lines 73-77, or lines 88-89 when it raises
MoveDelete(p) ==
    /\ request[p].stage = "delete"
    /\ \/ /\ s3' = [s3 EXCEPT ![request[p].temp_file_key] = NoObj]
          /\ request' = [request EXCEPT
                ![p].deleted = TRUE,
                ![p].stage = "responded",
                ![p].response = CompletedResponse(request[p].file_key)]
       \/ /\ request' = [request EXCEPT
                ![p].stage = "responded",
                ![p].exception = "StoreError",
                ![p].response = format_exception("StoreError")]
          /\ UNCHANGED s3
    /\ UNCHANGED << tasks, pc, call, file_exists, bedrock_response, voice,
                    outcome, log, settled, started, handler, now, issued,
                    hashed, chunking, jobs >>

NextTranscripts ==
    \/ \E p \in Procs :
          \/ StartTranscription(p)
          \/ CheckTranscription(p)
          \/ MoveCheck(p)
          \/ MoveCopy(p)
          \/ MoveDelete(p)
    \/ TranscribeEndsJob

SpecTranscripts == Init /\ [][NextTranscripts]_vars

(***************************************************************************)
(* Vocabulary of the properties                                            *)
(***************************************************************************)
Range(seq) == { seq[i] : i \in 1..Len(seq) }

IsGenerate(p) == call[p].fn = "generate"
IsSynthesize(p) == call[p].fn = "synthesize"

\* the call of p has made its existence check
Checked(p) == pc[p] \notin {"idle", "check"}

\* the call of p has returned a result / has raised error
Returned(p) == pc[p] = "done" /\ outcome[p][1] # "raise"
Raised(p, error) ==
    pc[p] = "done" /\ outcome[p][1] = "raise" /\ outcome[p][2] = error

\* the call of p called / is about to call the synchronous synthesis
SyncSynthesis(p) ==
    \/ "synthesize_speech" \in Range(log[p].polly)
    \/ pc[p] \in {"synthesize", "upload"}

\* the call of p submitted / is about to submit an asynchronous task
AsyncTask(p) ==
    \/ "start_speech_synthesis_task" \in Range(log[p].polly)
    \/ pc[p] = "start_task"

\* a synthesis call that found no audio at an absent key, language supported
FreshSynthesis(p) ==
    /\ IsSynthesize(p)
    /\ Checked(p)
    /\ ~log[p].present_at_check
    /\ call[p].language_code \in polly_supported_languages

(***************************************************************************)
(* C1  Cache hit suppresses generation: a get_or_generate_bedrock_response *)
(* call made while the key is present in the bucket does not invoke the    *)
(* generation function, does not write, and returns the stored value with  *)
(* wasCached = true.                                                       *)
(* Violated: when head_object fails in the existence check of a present    *)
(* key, check_s3_file_exists answers False and the call generates again.   *)
(***************************************************************************)
C1_CacheHitSuppressesGeneration ==
    \A p \in Procs :
        (IsGenerate(p) /\ Checked(p) /\ log[p].present_at_check) =>
            /\ log[p].generated = 0
            /\ pc[p] \notin {"generate", "write"}
            /\ log[p].puts = << >>
            /\ Returned(p) =>
                  /\ outcome[p][3] = TRUE
                  /\ JsonDumps(outcome[p][2]) = log[p].read

(***************************************************************************)
(* C2  Cache miss persists exactly once: a call made while the key is      *)
(* absent that returns (generation and the bucket succeeded) invoked the   *)
(* generation function once, made one put_object, at its key, of the value *)
(* it returns, and returns wasCached = false.                              *)
(***************************************************************************)
C2_CacheMissPersistsOnce ==
    \A p \in Procs :
        (IsGenerate(p) /\ Returned(p) /\ ~log[p].present_at_check) =>
            /\ log[p].generated = 1
            /\ log[p].puts =
                  << << call[p].file_key, JsonDumps(outcome[p][2]) >> >>
            /\ outcome[p][2] \in Values
            /\ outcome[p][3] = FALSE

C2_Witness ==
    \E p \in Procs :
        /\ IsGenerate(p) /\ Returned(p)
        /\ log[p].head = "not_found"
        /\ s3[call[p].file_key] = JsonDumps(outcome[p][2])

(***************************************************************************)
(* C3  Generation failure leaves no trace: when the generation function    *)
(* raises, the call ends with that error, the step leaves the bucket as it *)
(* was and the call has written nothing; a call that checks the key while  *)
(* it is absent (the retry) goes to the generation function again.         *)
(***************************************************************************)
C3_NothingWritten ==
    \A p \in Procs :
        IsGenerate(p) =>
            /\ Raised(p, "GenerationError") =>
                  log[p].puts = << >> /\ log[p].generated = 1
            /\ (Checked(p) /\ ~log[p].present_at_check) =>
                  pc[p] = "generate" \/ log[p].generated = 1

C3_FailingStep ==
    \A p \in Procs :
        (pc[p] = "generate" /\ pc'[p] = "done" /\ outcome'[p][1] = "raise") =>
            /\ outcome'[p][2] = "GenerationError"
            /\ s3' = s3

C3_GenerationFailureLeavesNoTrace ==
    [](C3_NothingWritten) /\ [][C3_FailingStep]_vars

C3_Witness ==
    \E p \in Procs :
        /\ IsGenerate(p)
        /\ log[p].retry
        /\ log[p].generated = 1
        /\ s3[call[p].file_key] = NoObj

(***************************************************************************)
(* C4  Write-once per key, as claimed: in every execution, concurrent      *)
(* calls included, a put_object is made only at a key that holds no object *)
(* and the object stored at a key never changes.                           *)
(* Violated by two calls that both miss the key before either writes.      *)
(***************************************************************************)
PutStep(p) == Len(log'[p].puts) > Len(log[p].puts)

C4_OnePutAfterMiss ==
    \A p \in Procs :
        log[p].puts # << >> =>
            /\ Len(log[p].puts) = 1
            /\ log[p].puts[1][1] = call[p].file_key
            /\ ~file_exists[p]

C4_ChangeIsAMissWrite ==
    \A k \in Keys :
        s3'[k] # s3[k] =>
            \E p \in Procs :
                /\ call[p].file_key = k
                /\ ~file_exists[p]
                /\ log[p].puts = << >>
                /\ log'[p].puts = << << k, s3'[k] >> >>

C5_MissMissRace ==
    /\ \A p \in Procs :
          (IsGenerate(p) /\ log[p].raced /\ Returned(p)) =>
              log[p].generated = 1 /\ Len(log[p].puts) = 1
    /\ \A k \in TextKeys :
          settled[k] # NoObj =>
              /\ IsJson(settled[k]) /\ JsonLoads(settled[k]) \in Values
              /\ s3[k] = settled[k]
              /\ \A r \in Procs :
                    ( /\ IsGenerate(r) /\ call[r].file_key = k
                      /\ ~log[r].raced /\ Checked(r) ) =>
                        /\ log[r].generated = 0
                        /\ pc[r] \notin {"generate", "write"}
                        /\ Returned(r) =>
                              /\ outcome[r][2] = JsonLoads(settled[k])
                              /\ outcome[r][3] = TRUE

(***************************************************************************)
(* C6  Store failures are not swallowed: when the bucket cannot be reached *)
(* in the existence check, the call ends with an error and does not invoke *)
(* the generation function; so generation is never invoked for a key that  *)
(* held a value when it was checked.                                       *)
(* Violated: check_s3_file_exists turns every exception into False.        *)
(***************************************************************************)
C6_StoreFailureAborts ==
    \A p \in Procs :
        (IsGenerate(p) /\ Checked(p)) =>
            /\ log[p].head = "error" =>
                  /\ pc[p] = "done"
                  /\ outcome[p][1] = "raise"
                  /\ log[p].generated = 0
            /\ log[p].present_at_check => log[p].generated = 0

(***************************************************************************)
(* C7  Existing audio short-circuits: a get_or_synthesize_speech call made *)
(* while the audio key exists returns {audio_key} and calls Polly not at   *)
(* all, whatever the text length, the language code and async_processing.  *)
(* Violated: when head_object fails in the existence check of an existing  *)
(* audio key, the call goes on to Polly.                                   *)
(***************************************************************************)
C7_ExistingAudioShortCircuits ==
    \A p \in Procs :
        (IsSynthesize(p) /\ Checked(p) /\ log[p].present_at_check) =>
            /\ log[p].polly = << >>
            /\ pc[p] = "done"
            /\ outcome[p] = << SYNTHESIS_RESULT_AUDIO_KEY, call[p].file_key >>

(***************************************************************************)
(* C8  Synchronous path: with the audio key absent, the language           *)
(* supported, a voice found, async_processing false and a text shorter     *)
(* than SYNTHESIZE_MAX_LENGTH, the call makes the synchronous synthesis    *)
(* call and never an asynchronous task; when it returns, it returns        *)
(* {audio_key}, having put the audio at the key, which holds an object.    *)
(***************************************************************************)
C8_SynchronousPath ==
    \A p \in Procs :
        ( /\ FreshSynthesis(p)
          /\ ~call[p].async_processing
          /\ call[p].text_length < SYNTHESIZE_MAX_LENGTH ) =>
            /\ ~AsyncTask(p)
            /\ voice[p] # None =>
                  /\ SyncSynthesis(p)
                  /\ ~Raised(p, "TextTooLong")
            /\ Returned(p) =>
                  /\ outcome[p] = << SYNTHESIS_RESULT_AUDIO_KEY, call[p].file_key >>
                  /\ log[p].puts = << << call[p].file_key, AudioObject >> >>
                  /\ s3[call[p].file_key] # NoObj

C8_Witness ==
    \E p \in Procs :
        /\ FreshSynthesis(p)
        /\ ~call[p].async_processing
        /\ call[p].text_length = SYNTHESIZE_MAX_LENGTH - 1
        /\ Returned(p)
        /\ outcome[p][1] = SYNTHESIS_RESULT_AUDIO_KEY

(***************************************************************************)
(* C9  Asynchronous path boundary: with the audio key absent, the language *)
(* supported, async_processing false and SYNTHESIZE_MAX_LENGTH <= length < *)
(* ASYNC_SYNTHESIZE_MAX_LENGTH, the call never makes the synchronous call  *)
(* and writes nothing; with a voice found it submits the task; when it     *)
(* returns, it returns {task_id} of the one task it submitted under the    *)
(* audio key as prefix, with no further call to Polly.                     *)
(***************************************************************************)
C9_AsynchronousPath ==
    \A p \in Procs :
        ( /\ FreshSynthesis(p)
          /\ ~call[p].async_processing
          /\ call[p].text_length >= SYNTHESIZE_MAX_LENGTH
          /\ call[p].text_length < ASYNC_SYNTHESIZE_MAX_LENGTH ) =>
            /\ ~SyncSynthesis(p)
            /\ log[p].puts = << >>
            /\ voice[p] # None =>
                  /\ AsyncTask(p)
                  /\ ~Raised(p, "TextTooLong")
            /\ Returned(p) =>
                  /\ outcome[p][1] = SYNTHESIS_RESULT_TASK_ID
                  /\ log[p].polly = << "describe_voices",
                                       "describe_voices_for_language",
                                       "start_speech_synthesis_task" >>
                  /\ [ TaskId |-> outcome[p][2],
                       OutputS3KeyPrefix |-> call[p].file_key ] \in tasks

C9_Witness ==
    \E p \in Procs :
        /\ FreshSynthesis(p)
        /\ ~call[p].async_processing
        /\ call[p].text_length = SYNTHESIZE_MAX_LENGTH
        /\ Returned(p)
        /\ outcome[p][1] = SYNTHESIS_RESULT_TASK_ID
        /\ s3[call[p].file_key] = NoObj

(***************************************************************************)
(* C10  async_processing = True takes the asynchronous path: with the      *)
(* audio key absent and the language supported, such a call never makes    *)
(* the synchronous call, whatever the text length; below the asynchronous  *)
(* limit and with a voice found it submits the task, and what it returns   *)
(* is a task identifier.                                                   *)
(***************************************************************************)
C10_ForcedAsynchronous ==
    \A p \in Procs :
        (FreshSynthesis(p) /\ call[p].async_processing) =>
            /\ ~SyncSynthesis(p)
            /\ log[p].puts = << >>
            /\ (voice[p] # None
                  /\ call[p].text_length < ASYNC_SYNTHESIZE_MAX_LENGTH) =>
                  /\ AsyncTask(p)
                  /\ ~Raised(p, "TextTooLong")
            /\ Returned(p) =>
                  /\ outcome[p][1] = SYNTHESIS_RESULT_TASK_ID
                  /\ \E t \in tasks : t.TaskId = outcome[p][2]

\* a short text and a 50,000-character text, both forced asynchronous
C10_Witness ==
    \E p, q \in Procs :
        /\ FreshSynthesis(p) /\ FreshSynthesis(q)
        /\ call[p].async_processing /\ call[q].async_processing
        /\ call[p].text_length = SYNTHESIZE_MAX_LENGTH - 1
        /\ call[q].text_length = 50000
        /\ Returned(p) /\ Returned(q)
        /\ outcome[p][1] = SYNTHESIS_RESULT_TASK_ID
        /\ outcome[q][1] = SYNTHESIS_RESULT_TASK_ID

(***************************************************************************)
(* C11  Text too long: with the audio key absent and the language          *)
(* supported, a text of ASYNC_SYNTHESIZE_MAX_LENGTH characters or more     *)
(* (the limit itself included) never reaches the synchronous call or the   *)
(* asynchronous task, writes nothing and never returns, whatever           *)
(* async_processing is; once the voice is found the call has ended with    *)
(* the text-too-long error.                                                *)
(***************************************************************************)
C11_TextTooLong ==
    \A p \in Procs :
        ( /\ FreshSynthesis(p)
          /\ call[p].text_length >= ASYNC_SYNTHESIZE_MAX_LENGTH ) =>
            /\ ~SyncSynthesis(p)
            /\ ~AsyncTask(p)
            /\ log[p].puts = << >>
            /\ ~Returned(p)
            /\ voice[p] # None => Raised(p, "TextTooLong")

\* both values of async_processing, at exactly the limit
C11_Witness ==
    \E p, q \in Procs :
        /\ FreshSynthesis(p) /\ FreshSynthesis(q)
        /\ call[p].text_length = ASYNC_SYNTHESIZE_MAX_LENGTH
        /\ call[q].text_length = ASYNC_SYNTHESIZE_MAX_LENGTH
        /\ call[p].async_processing /\ ~call[q].async_processing
        /\ Raised(p, "TextTooLong") /\ Raised(q, "TextTooLong")
        /\ tasks = {}

(***************************************************************************)
(* C12  Unsupported language is rejected before the voice and the mode:    *)
(* with the audio key absent and a language code Polly lists no voice for, *)
(* the call never looks a voice up, never reaches the synchronous call or  *)
(* the asynchronous task, writes nothing and never returns, whatever the   *)
(* text length and async_processing are; when Polly answers the listing,   *)
(* the call ends with the unsupported-language error, never with the       *)
(* text-too-long one.                                                      *)
(***************************************************************************)
C12_UnsupportedLanguage ==
    \A p \in Procs :
        ( /\ IsSynthesize(p)
          /\ Checked(p)
          /\ ~log[p].present_at_check
          /\ VoicesFor(call[p].language_code) = << >> ) =>
            /\ "describe_voices_for_language" \notin Range(log[p].polly)
            /\ pc[p] \in {"languages", "done"}
            /\ voice[p] = None
            /\ ~SyncSynthesis(p)
            /\ ~AsyncTask(p)
            /\ log[p].puts = << >>
            /\ pc[p] = "done" =>
                  \/ Raised(p, "UnsupportedLanguage")
                  \/ Raised(p, "PollyError")

\* a short text and a text at the asynchronous limit, both rejected
C12_Witness ==
    \E p, q \in Procs :
        /\ IsSynthesize(p) /\ IsSynthesize(q)
        /\ call[p].language_code \notin polly_supported_languages
        /\ call[q].language_code \notin polly_supported_languages
        /\ call[p].text_length = SYNTHESIZE_MAX_LENGTH - 1
        /\ call[q].text_length = ASYNC_SYNTHESIZE_MAX_LENGTH
        /\ log[p].head = "not_found" /\ log[q].head = "not_found"
        /\ Raised(p, "UnsupportedLanguage") /\ Raised(q, "UnsupportedLanguage")

(***************************************************************************)
(* C13  Pending audio becomes present at the audio key: once the task a    *)
(* call submitted for an audio key has completed, an object exists at that *)
(* audio key, and a call that then checks the key returns {audio_key}      *)
(* without submitting another task.                                        *)
(* Violated: the task stores its audio at get_synthesis_file_key(audio     *)
(* key, task id, format), the audio key stays absent and the next call     *)
(* goes to Polly again.                                                    *)
(***************************************************************************)
C13_AudioAtAudioKey ==
    \A task \in tasks :
        Completed(task) => s3[task.OutputS3KeyPrefix] # NoObj

C13_LaterCallIsAHit ==
    \A p \in Procs :
        ( /\ IsSynthesize(p)
          /\ pc[p] = "check"
          /\ pc'[p] # "check"
          /\ \E task \in tasks :
                /\ task.OutputS3KeyPrefix = call[p].file_key
                /\ Completed(task) ) =>
            /\ pc'[p] = "done"
            /\ outcome'[p] = << SYNTHESIS_RESULT_AUDIO_KEY, call[p].file_key >>

C13_PendingAudioBecomesPresent ==
    [](C13_AudioAtAudioKey) /\ [][C13_LaterCallIsAHit]_vars

(***************************************************************************)
(* Where the audio of a completed task is: at the key the task id is part  *)
(* of, which no call of get_or_synthesize_speech ever checks.              *)
(***************************************************************************)
TaskOutputIsNeverChecked ==
    \A task \in tasks :
        /\ OutputKey(task) \notin AudioKeys
        /\ \A p \in Procs : call[p].file_key # OutputKey(task)

(***************************************************************************)
(* C14  Hit flag drives async_processing: the async_processing argument    *)
(* the handler passes to get_or_synthesize_speech is the flag              *)
(* get_or_generate_bedrock_response returned to it in the same invocation, *)
(* so it is true exactly when the summary key held an object at the time   *)
(* of the existence check.                                                 *)
(* Violated in its second part: when head_object fails on an existing      *)
(* summary key the flag is false and the narration is not forced.          *)
(***************************************************************************)
C14_HitFlagDrivesForceAsync ==
    \A p \in Procs :
        handler[p].stage = "audio" =>
            /\ call[p].fn = "synthesize"
            /\ call[p].async_processing = handler[p].repeated_requested
            /\ call[p].async_processing = handler[p].key_existed

(***************************************************************************)
(* What holds of the flag: the handler passes on what the cache returned,  *)
(* and that is true only for a key that held an object when checked.       *)
(***************************************************************************)
ForceAsyncIsWasCached ==
    \A p \in Procs :
        handler[p].stage = "audio" =>
            /\ call[p].fn = "synthesize"
            /\ call[p].async_processing = handler[p].repeated_requested
            /\ call[p].async_processing => handler[p].key_existed

(***************************************************************************)
(* C15  Synthesis is best-effort for the handler: once the handler has the *)
(* summary, whatever get_or_synthesize_speech raises, the response is the  *)
(* success response with the summary and its key and without audio; a      *)
(* request that got its summary never ends with an error response, and no  *)
(* step of the synthesis changes or removes the stored summary.            *)
(***************************************************************************)
C15_TextOnlyResponse ==
    \A p \in Procs :
        /\ handler[p].stage = "audio" =>
              /\ handler[p].summary \in Values
              /\ s3[handler[p].summary_key] # NoObj
        /\ (handler[p].stage = "responded"
                /\ handler[p].synthesis_result # << >>) =>
              /\ handler[p].response.statusCode = OK_CODE
              /\ handler[p].synthesis_result[1] = "raise" =>
                    handler[p].response =
                        [ statusCode |-> OK_CODE,
                          body |-> JsonDumps(
                              [ fileKey |-> handler[p].summary_key,
                                value |-> handler[p].summary ]) ]

C15_SummaryStays ==
    \A p \in Procs :
        ( /\ handler[p].stage = "audio"
          /\ (pc'[p] # pc[p] \/ handler'[p] # handler[p]) ) =>
            \A k \in SummaryKeys : s3'[k] = s3[k]

C15_SynthesisIsBestEffort ==
    [](C15_TextOnlyResponse) /\ [][C15_SummaryStays]_vars

\* one request answered after the language was refused, another after the
\* upload of the audio failed: both carry the summary, none carries audio
C15_Witness ==
    \E p, q \in Procs :
        /\ handler[p].stage = "responded"
        /\ handler[p].synthesis_result = << "raise", "UnsupportedLanguage" >>
        /\ handler[p].response.statusCode = OK_CODE
        /\ handler[q].stage = "responded"
        /\ handler[q].synthesis_result = << "raise", "StoreError" >>
        /\ handler[q].response.body[2].value = handler[q].summary
        /\ s3[handler[q].summary_key] # NoObj
        /\ s3[handler[q].audio_key] = NoObj

(***************************************************************************)
(* C16  Repeated sequential calls are idempotent: when the calls on a key  *)
(* run one after the other, starting with the key absent, only a call that *)
(* found the key absent generates, and it returns wasCached = false; every *)
(* call made once the key is stored returns wasCached = true and the       *)
(* stored value without generating, the stored value never changes, and so *)
(* all calls that returned have returned the same value.                   *)
(* Violated: a later call whose head_object fails generates again, returns *)
(* wasCached = false and replaces the stored value.                        *)
(***************************************************************************)
C16_CallsAgree ==
    /\ \A p \in Procs :
          (IsGenerate(p) /\ Returned(p)) =>
              IF log[p].present_at_check
              THEN /\ log[p].generated = 0
                   /\ outcome[p][3] = TRUE
                   /\ JsonDumps(outcome[p][2]) = s3[call[p].file_key]
              ELSE /\ log[p].generated = 1
                   /\ outcome[p][3] = FALSE
                   /\ JsonDumps(outcome[p][2]) = s3[call[p].file_key]
    /\ \A p, q \in Procs :
          ( /\ IsGenerate(p) /\ Returned(p)
            /\ IsGenerate(q) /\ Returned(q)
            /\ call[p].file_key = call[q].file_key ) =>
              outcome[p][2] = outcome[q][2]

C16_StoredValueStays ==
    \A k \in TextKeys : s3[k] # NoObj => s3'[k] = s3[k]

C16_SequentialCallsIdempotent ==
    [](C16_CallsAgree) /\ [][C16_StoredValueStays]_vars

(***************************************************************************)
(* C17  A generated value is never lost: the step in which a call returns  *)
(* a value with wasCached = false leaves that value stored at the call's   *)
(* key, put there by the call itself; a call whose put_object fails ends   *)
(* with the store's error and returns nothing.                             *)
(***************************************************************************)
C17_StoredAtReturn ==
    \A p \in Procs :
        ( /\ IsGenerate(p)
          /\ pc[p] # "done"
          /\ pc'[p] = "done"
          /\ outcome'[p][1] = "return"
          /\ outcome'[p][3] = FALSE ) =>
            /\ s3'[call[p].file_key] = JsonDumps(outcome'[p][2])
            /\ log'[p].puts =
                  << << call[p].file_key, JsonDumps(outcome'[p][2]) >> >>

C17_FailedWriteRaises ==
    \A p \in Procs :
        (IsGenerate(p) /\ pc[p] = "write" /\ pc'[p] # "write" /\ s3' = s3
            /\ ~PutStep(p)) =>
            /\ pc'[p] = "done"
            /\ outcome'[p] = << "raise", "StoreError" >>

C18_VoiceSelection ==
    \A p \in Procs :
        FreshSynthesis(p) =>
            /\ voice[p] # None =>
                  voice[p] = VoicesFor(call[p].language_code)[1].Id
            /\ (SyncSynthesis(p) \/ AsyncTask(p)) => voice[p] # None
            /\ Raised(p, "NoVoiceAvailable") =>
                  /\ voice[p] = None
                  /\ ~SyncSynthesis(p)
                  /\ ~AsyncTask(p)
                  /\ log[p].puts = << >>
                  /\ log[p].polly = << "describe_voices",
                                       "describe_voices_for_language" >>

C18_Witness ==
    \E p, q \in Procs :
        /\ FreshSynthesis(p) /\ Returned(p)
        /\ voice[p] = PollyVoices[1].Id
        /\ FreshSynthesis(q) /\ Raised(q, "NoVoiceAvailable")

(***************************************************************************)
(* C19  Timestamped keys never collide: two distinct calls of get_file_key *)
(* that ask for a timestamped key with the same job, folder, identity,     *)
(* model and language (both given, as in ask-assistant) obtain different   *)
(* keys, whatever the time between the calls.                              *)
(* Violated: two calls that read the same clock value obtain the same key. *)
(***************************************************************************)
TimestampedCall(i) ==
    /\ issued[i].timestamp # None
    /\ Truthy(issued[i].request[4])
    /\ Truthy(issued[i].request[5])

C19_TimestampedKeysNeverCollide ==
    \A i, j \in 1..Len(issued) :
        ( /\ i # j
          /\ TimestampedCall(i) /\ TimestampedCall(j)
          /\ issued[i].request = issued[j].request ) =>
            issued[i].key # issued[j].key

(***************************************************************************)
(* What holds of timestamped keys: calls that read different clock values  *)
(* for the same request obtain different keys.                             *)
(***************************************************************************)
TimestampedKeysDifferAcrossTicks ==
    \A transcription_job_name \in JobNames, folder_path \in FolderPaths,
       identity_id \in IdentityIds, output_format \in OutputFormats,
       model_id \in ModelIds \ {None}, language \in Languages \ {None},
       ts1, ts2 \in 0..MaxTick :
        ts1 # ts2 =>
            get_file_key(transcription_job_name, folder_path, identity_id,
                         output_format, model_id, language, "True", ts1)
          # get_file_key(transcription_job_name, folder_path, identity_id,
                         output_format, model_id, language, "True", ts2)

(***************************************************************************)
(* C20  A cache key identifies its request: of two calls of get_file_key   *)
(* without a timestamp, those with different (identity, folder, job,       *)
(* model, language, format) obtain different keys and those with the same  *)
(* obtain the same key.                                                    *)
(* Violated: the parts are joined by "-", which model ids and language     *)
(* codes contain themselves.                                               *)
(***************************************************************************)
C20_KeyIdentifiesRequest ==
    \A i, j \in 1..Len(issued) :
        (issued[i].timestamp = None /\ issued[j].timestamp = None) =>
            (issued[i].request = issued[j].request
                <=> issued[i].key = issued[j].key)

(***************************************************************************)
(* What holds of keys without a timestamp: the same request always obtains *)
(* the same key, at any clock reading.                                     *)
(***************************************************************************)
SameRequestSameKey ==
    \A i, j \in 1..Len(issued) :
        ( /\ issued[i].timestamp = None /\ issued[j].timestamp = None
          /\ issued[i].request = issued[j].request ) =>
            issued[i].key = issued[j].key

(***************************************************************************)
(* C26  One synthesis request per call, one kind of result: a call of      *)
(* get_or_synthesize_speech makes at most one of polly.synthesize_speech   *)
(* and polly.start_speech_synthesis_task, and makes it at most once: a     *)
(* failed synchronous call is raised, it is neither repeated nor followed  *)
(* by an asynchronous task. A result is either {audio_key} or {task_id}:   *)
(* a task id comes from the one task the call submitted and nothing it     *)
(* put, an audio key from no request or from the one synchronous call.     *)
(***************************************************************************)
SynthesisRequests(p) ==
    SelectSeq(log[p].polly,
              LAMBDA api : api \in {"synthesize_speech",
                                    "start_speech_synthesis_task"})

C26_OneSynthesisRequest ==
    \A p \in Procs :
        IsSynthesize(p) =>
            /\ Len(SynthesisRequests(p)) <= 1
            /\ ~(SyncSynthesis(p) /\ AsyncTask(p))
            /\ Returned(p) =>
                  /\ Len(outcome[p]) = 2
                  /\ outcome[p][1] \in {SYNTHESIS_RESULT_AUDIO_KEY,
                                         SYNTHESIS_RESULT_TASK_ID}
                  /\ outcome[p][1] = SYNTHESIS_RESULT_TASK_ID =>
                        /\ SynthesisRequests(p) =
                              << "start_speech_synthesis_task" >>
                        /\ log[p].puts = << >>
                  /\ outcome[p][1] = SYNTHESIS_RESULT_AUDIO_KEY =>
                        /\ SynthesisRequests(p) \in
                              {<< >>, << "synthesize_speech" >>}
                        /\ outcome[p][2] = call[p].file_key

\* a synchronous call that failed and was raised, with no task submitted,
\* next to a call that returned the audio key of its one synchronous call
C26_Witness ==
    \E p, q \in Procs :
        /\ IsSynthesize(p) /\ Raised(p, "PollyError")
        /\ SynthesisRequests(p) = << "synthesize_speech" >>
        /\ tasks = {}
        /\ IsSynthesize(q) /\ Returned(q)
        /\ SynthesisRequests(q) = << "synthesize_speech" >>

(***************************************************************************)
(* C21  The identifier is pure, deterministic and total: every call of     *)
(* deterministic_hash returns, it raises for no string; calls with the     *)
(* same file key return the same identifier, whatever the clock reads and  *)
(* whatever was hashed before; a file key without the marker "videos",     *)
(* the empty one included, is hashed whole.                                *)
(* Violated: a file key that holds a surrogate code point outside the part *)
(* cut off at the marker makes result.encode() raise UnicodeEncodeError.   *)
(***************************************************************************)
HasMarker(file_key) == find(file_key, "videos") # -1

\* the file key from its first "videos" on
FromMarker(file_key) ==
    SubSeq(file_key, find(file_key, "videos") + 1, Len(file_key))

C21_IdentifierIsDeterministic ==
    \A i, j \in 1..Len(hashed) :
        hashed[i].file_key = hashed[j].file_key =>
            hashed[i].result = hashed[j].result

C21_HashedWhole ==
    \A i \in 1..Len(hashed) :
        ~HasMarker(hashed[i].file_key) =>
            hashed[i].result = sha256_urlsafe(hashed[i].file_key)

C21_IdentifierIsPureAndTotal ==
    /\ \A i \in 1..Len(hashed) : hashed[i].result[1] = "return"
    /\ C21_IdentifierIsDeterministic
    /\ C21_HashedWhole

\* what holds of C21: the same file key gives the same outcome at every
\* clock reading and after every earlier call, file keys without the marker
\* are hashed whole, and every call whose hashed part UTF-8 can encode returns
IdentifierIsTotalOnEncodableKeys ==
    /\ C21_IdentifierIsDeterministic
    /\ C21_HashedWhole
    /\ \A i \in 1..Len(hashed) :
          LET file_key == hashed[i].file_key
          IN  CanEncode(IF HasMarker(file_key)
                        THEN FromMarker(file_key) ELSE file_key) =>
                 hashed[i].result[1] = "return"

(***************************************************************************)
(* C22  Marker truncation: two file keys that are the same from their      *)
(* first "videos" on, differing only in what precedes it, have the same    *)
(* identifier, which is the identifier of the file key cut to start at     *)
(* the marker.                                                             *)
(***************************************************************************)
C22_PrefixIndependent ==
    \A i, j \in 1..Len(hashed) :
        ( /\ HasMarker(hashed[i].file_key)
          /\ HasMarker(hashed[j].file_key)
          /\ FromMarker(hashed[i].file_key) = FromMarker(hashed[j].file_key) ) =>
            /\ hashed[i].result = hashed[j].result
            /\ hashed[i].result =
                  deterministic_hash(FromMarker(hashed[i].file_key))

\* "s3://bucket/videos/lecture1.mp4" and "videos/lecture1.mp4" were hashed
C22_Witness ==
    \E i, j \in 1..Len(hashed) :
        /\ hashed[i].file_key = "s3://bucket/videos/lecture1.mp4"
        /\ hashed[j].file_key = "videos/lecture1.mp4"
        /\ hashed[i].result[1] = "return"
        /\ hashed[i].result = hashed[j].result

(***************************************************************************)
(* C23  Alphabet invariant: every character of an identifier that          *)
(* deterministic_hash returns is one of ALLOWED_CHARS_HASH (letters,       *)
(* digits, '.', '_', '-'); no identifier holds the padding character '='.  *)
(***************************************************************************)
C23_AlphabetInvariant ==
    \A i \in 1..Len(hashed) :
        hashed[i].result[1] = "return" =>
            /\ Chars(hashed[i].result[2]) \subseteq allowed_chars
            /\ "=" \notin Chars(hashed[i].result[2])

\* an identifier with '-' and '_' in it, made of 43 characters: the 44
\* characters of the base64 text without the padding that ended it
C23_Witness ==
    \E i \in 1..Len(hashed) :
        /\ HasMarker(hashed[i].file_key)
        /\ hashed[i].result[1] = "return"
        /\ {"-", "_"} \subseteq Chars(hashed[i].result[2])
        /\ Len(hashed[i].result[2]) = 43
        /\ Len(Sha256Base64[FromMarker(hashed[i].file_key)]) = 44

(***************************************************************************)
(* C24  Chunk length bound: every string of the list that                  *)
(* split_text_into_chunks returns, the last one included, has at most      *)
(* max_length characters, for every text and every max_length.             *)
(***************************************************************************)
C24_ChunkLengthBound ==
    chunking.stage = "returned" =>
        \A i \in 1..Len(chunking.chunks) :
            Len(chunking.chunks[i]) <= chunking.max_length

\* a returned list whose last chunk and an earlier chunk both have exactly
\* max_length characters
C24_Witness ==
    /\ chunking.stage = "returned"
    /\ chunking.max_length >= 1
    /\ Len(chunking.chunks) >= 2
    /\ Len(chunking.chunks[Len(chunking.chunks)]) = chunking.max_length
    /\ \E i \in 1..(Len(chunking.chunks) - 1) :
          Len(chunking.chunks[i]) = chunking.max_length

(***************************************************************************)
(* C25  Chunking terminates: every iteration of the loop of                *)
(* split_text_into_chunks leaves a remaining text strictly shorter than it *)
(* found, for every text and every max_length, so the loop ends and the    *)
(* list is returned.                                                       *)
(* Violated: with max_length = 0 and a text that is not empty the cut is   *)
(* made at index 0, the remaining text stays what it was and the loop      *)
(* appends empty chunks for ever.                                          *)
(***************************************************************************)
C25_EachIterationShortens ==
    [][ SplitLoop => Len(chunking'.text) < Len(chunking.text) ]_vars

\* what holds of C25: with max_length >= 1 every iteration shortens the
\* remaining text, and the loop is left before the model cuts it off
IterationShortensWhenMaxLengthPositive ==
    /\ [][ (SplitLoop /\ chunking.max_length >= 1) =>
              Len(chunking'.text) < Len(chunking.text) ]_vars
    /\ []( (chunking.stage = "loop" /\ chunking.max_length >= 1) =>
              Len(chunking.chunks) + Len(chunking.text)
                  <= Len(chunking.original) )

(***************************************************************************)
(* C30  Chunk split rule: a remaining text longer than max_length is cut   *)
(* right after the last '.' among its first max_length characters, or      *)
(* after exactly max_length characters when none of them is a '.'; the     *)
(* last chunk is what remains; the chunks are, in order, the pieces of the *)
(* text, each without the whitespace at its edges: nothing else is dropped *)
(* and nothing is duplicated.                                              *)
(***************************************************************************)
\* where the rule cuts: after the last period of the window, else at its end
CutOfTheRule(remaining, max_length) ==
    LET periods == { i \in 1..max_length : SubSeq(remaining, i, i) = "." }
    IN  IF periods = {}
        THEN max_length
        ELSE CHOOSE i \in periods : \A j \in periods : j <= i

\* pieces is, in order, a division of str into as many consecutive parts,
\* each part stripped of the whitespace at its edges
RECURSIVE IsDivisionOf(_, _)
IsDivisionOf(pieces, str) ==
    IF pieces = << >>
    THEN str = ""
    ELSE \E k \in 0..Len(str) :
            /\ strip(SubSeq(str, 1, k)) = Head(pieces)
            /\ IsDivisionOf(Tail(pieces), SubSeq(str, k + 1, Len(str)))

C30_CutAtTheRule ==
    SplitLoop =>
        LET cut == CutOfTheRule(chunking.text, chunking.max_length)
        IN  /\ chunking'.chunks =
                  Append(chunking.chunks, strip(SubSeq(chunking.text, 1, cut)))
            /\ chunking'.text =
                  SubSeq(chunking.text, cut + 1, Len(chunking.text))

C30_NothingDroppedOrDuplicated ==
    /\ chunking.stage = "loop" =>
          IsDivisionOf(Append(chunking.chunks, strip(chunking.text)),
                       chunking.original)
    /\ chunking.stage = "returned" =>
          /\ IsDivisionOf(chunking.chunks, chunking.original)
          /\ chunking.chunks[Len(chunking.chunks)] = strip(chunking.text)

C30_ChunkSplitRule ==
    /\ [][C30_CutAtTheRule]_vars
    /\ []C30_NothingDroppedOrDuplicated

\* a returned list with a chunk cut after a period short of max_length, a
\* chunk cut at max_length with no period in it, and whitespace dropped
C30_Witness ==
    /\ chunking.stage = "returned"
    /\ \E i, j \in 1..(Len(chunking.chunks) - 1) :
          /\ Len(chunking.chunks[i]) < chunking.max_length
          /\ rfind(chunking.chunks[i], ".") = Len(chunking.chunks[i]) - 1
          /\ Len(chunking.chunks[j]) = chunking.max_length
          /\ rfind(chunking.chunks[j], ".") = -1
    /\ \E k \in 1..Len(chunking.original) :
          SubSeq(chunking.original, k, k) \in Whitespace

(***************************************************************************)
(* C27  No partial audio is ever stored: an audio key holds nothing or the *)
(* whole audio; a synthesis call puts at most once, the whole audio at its *)
(* audio key, in the step in which it returns {audio_key}; a call that     *)
(* ended with an exception (the synchronous call failed, the response had  *)
(* no audio stream, reading the stream failed) has put nothing; and a call *)
(* that finds its audio key absent is not answered from the bucket: it     *)
(* goes on to Polly, so a later call synthesizes again.                    *)
(***************************************************************************)
C27_WholeAudioOrNothing ==
    /\ \A k \in AudioKeys : s3[k] \in {NoObj, AudioObject}
    /\ \A p \in Procs :
          IsSynthesize(p) =>
             /\ log[p].puts \in {<< >>, << << call[p].file_key, AudioObject >> >>}
             /\ log[p].puts # << >> =>
                   /\ Returned(p)
                   /\ outcome[p] = << SYNTHESIS_RESULT_AUDIO_KEY, call[p].file_key >>
                   /\ SynthesisRequests(p) = << "synthesize_speech" >>
             /\ (pc[p] = "done" /\ outcome[p][1] = "raise") => log[p].puts = << >>
             /\ (Checked(p) /\ ~log[p].present_at_check) =>
                   \/ pc[p] = "languages"
                   \/ log[p].polly # << >>

\* an audio key changes only by the put of a call that has read its stream
C27_PutAfterTheStream ==
    \A k \in AudioKeys :
        s3'[k] # s3[k] =>
            \E p \in Procs :
                /\ pc[p] = "upload"
                /\ call[p].file_key = k
                /\ pc'[p] = "done"
                /\ outcome'[p] = << SYNTHESIS_RESULT_AUDIO_KEY, k >>
                /\ s3'[k] = AudioObject

C27_NoPartialAudio ==
    /\ []C27_WholeAudioOrNothing
    /\ [][C27_PutAfterTheStream]_vars

\* reading the stream failed in one call, which left the audio key absent
\* while another call at the same key is synthesizing again
C27_Witness ==
    \E p, q \in Procs :
        /\ IsSynthesize(p) /\ Raised(p, "StreamError")
        /\ s3[call[p].file_key] = NoObj
        /\ IsSynthesize(q) /\ call[q].file_key = call[p].file_key
        /\ pc[q] = "upload"
        /\ ~log[q].present_at_check

(***************************************************************************)
(* C28  A fully served request is replayed from the bucket: after a        *)
(* get-summary request that generated the summary and synthesized it       *)
(* synchronously, a request for the same identity, job, model and language *)
(* that finds the summary and the audio in the bucket returns the same     *)
(* response (the same value, fileKey and audioFileKey), invokes no         *)
(* generation and calls Polly not at all, although async_processing is     *)
(* then true.                                                              *)
(* Violated: when head_object fails in the existence check of the stored   *)
(* summary (C6), the later request generates the summary again, may return *)
(* another value, and passes async_processing = False.                     *)
(***************************************************************************)
\* the request of p generated its summary and synthesized it synchronously
FullyServed(p) ==
    /\ handler[p].stage = "responded"
    /\ ~handler[p].repeated_requested
    /\ handler[p].synthesis_result =
          << SYNTHESIS_RESULT_AUDIO_KEY, handler[p].audio_key >>
    /\ log[p].puts = << << handler[p].audio_key, AudioObject >> >>

\* the request of q, for the same summary, was answered after it found the
\* summary and the audio that p stored
LaterRequest(q, p) ==
    /\ q # p
    /\ handler[q].stage = "responded"
    /\ handler[q].language = handler[p].language
    /\ handler[q].key_existed
    /\ IsSynthesize(q)
    /\ log[q].present_at_check

C28_FullyServedIsReplayed ==
    \A p, q \in Procs :
        (FullyServed(p) /\ LaterRequest(q, p)) =>
            /\ handler[q].repeated_requested
            /\ log[q].polly = << >>
            /\ handler[q].response = handler[p].response

\* what holds of C28: when head_object answers in both existence checks of
\* the later request, the request generates nothing, calls Polly not at all
\* and returns the summary it read with the two keys of the first request
ReplayedWhenHeadAnswers ==
    \A p, q \in Procs :
        ( /\ FullyServed(p)
          /\ LaterRequest(q, p)
          /\ handler[q].repeated_requested
          /\ log[q].head = "found" ) =>
            /\ log[q].polly = << >>
            /\ log[q].puts = << >>
            /\ handler[q].response =
                  send_response_with_file_key_and_audio_key(
                      handler[q].summary,
                      handler[p].summary_key, handler[p].audio_key)

(***************************************************************************)
(* C29  Key format: get_file_key returns                                   *)
(* {identity}/{category}{jobName}[-{modelId}][-{timestamp}][-{language}]   *)
(* .{format}, each of the three suffixes being there exactly when its      *)
(* argument is given, in that order, for every combination of given and    *)
(* omitted model id, timestamp and language.                               *)
(* Violated: a timestamp given without a model id or without a language    *)
(* is left out of the key.                                                 *)
(***************************************************************************)
\* "-" and the part when the argument is given, nothing when it is omitted
Suffix(argument, part) == IF argument = None THEN "" ELSE "-" \o part

\* the key of the format for a call and a clock reading
KeyOfTheFormat(issue, reading) ==
    issue.request[1] \o "/" \o issue.request[2] \o issue.request[3]
        \o Suffix(issue.request[4], issue.request[4])
        \o Suffix(issue.timestamp, ToString(reading))
        \o Suffix(issue.request[5], issue.request[5])
        \o "." \o issue.request[6]

C29_KeyFormat ==
    \A i \in 1..Len(issued) :
        \E reading \in 0..now :
            issued[i].key = KeyOfTheFormat(issued[i], reading)

\* what holds of C29: the key has the format when no timestamp is asked
\* for, and when model id and language are both given
KeyFormatUnlessTimestampAlone ==
    \A i \in 1..Len(issued) :
        ( \/ issued[i].timestamp = None
          \/ (issued[i].request[4] # None /\ issued[i].request[5] # None) ) =>
            \E reading \in 0..now :
                issued[i].key = KeyOfTheFormat(issued[i], reading)

(***************************************************************************)
(* Vocabulary of the transcription properties                              *)
(***************************************************************************)
\* the response has the status code 200
IsOK(response) == ToString(response.statusCode) = ToString(OK_CODE)

\* request p has called move_s3_object
InMove(p) == request[p].temp_file_key # ""

\* a step in which the s3.copy of request p raises
CopyFails(p) ==
    request[p].stage = "copy" /\ request'[p].stage = "responded"

\* a step that removes the object at the source key of request p
SourceDeleted(p) ==
    /\ InMove(p)
    /\ s3[request[p].temp_file_key] # NoObj
    /\ s3'[request[p].temp_file_key] = NoObj

(***************************************************************************)
(* C31: a move never loses the object.  During and after a call of         *)
(* move_s3_object the object is at the source key or at the destination    *)
(* key of the call in every reachable state; the source is deleted only by *)
(* a call whose copy to the destination succeeded; and a copy that fails   *)
(* leaves the store as it was and the error is raised to the handler.      *)
(***************************************************************************)
C31_AtSourceOrDestination ==
    \A p \in Procs :
        InMove(p) => \/ s3[request[p].temp_file_key] # NoObj
                     \/ s3[request[p].file_key] # NoObj

C31_DeletedAfterTheCopy ==
    \A p \in Procs :
        SourceDeleted(p) =>
            \E q \in Procs :
                /\ request[q].stage = "delete" /\ request[q].copied
                /\ request'[q].deleted
                /\ request[q].temp_file_key = request[p].temp_file_key
                /\ s3'[request[q].file_key] # NoObj

C31_FailedCopyLeavesTheSource ==
    \A p \in Procs :
        CopyFails(p) =>
            /\ s3' = s3
            /\ ~request'[p].copied /\ ~request'[p].deleted
            /\ ~IsOK(request'[p].response)

C31_MoveNeverLoses ==
    /\ []C31_AtSourceOrDestination
    /\ [][C31_DeletedAfterTheCopy /\ C31_FailedCopyLeavesTheSource]_vars

\* What holds of C31: the transcript of a completed job is always in the
\* store, at the temporary key or at the destination of a call that copied
\* it; a call has it at its source or destination unless it is at the
\* destination of another identity; and the order of copy and delete is as
\* stated.
Destinations(name) == { TranscriptionFileKey(name, i) : i \in Identities }

MoveKeepsTheObject ==
    /\ [](\A name \in TranscriptionJobNames :
             jobs[name].status = COMPLETED_STATUS =>
                 \/ s3[TempFileKey(name)] # NoObj
                 \/ \E key \in Destinations(name) : s3[key] # NoObj)
    /\ [](\A p \in Procs :
             /\ InMove(p)
             /\ \A key \in Destinations(request[p].transcription_job_name) :
                    key # request[p].file_key => s3[key] = NoObj
             => \/ s3[request[p].temp_file_key] # NoObj
                \/ s3[request[p].file_key] # NoObj)
    /\ [][C31_DeletedAfterTheCopy /\ C31_FailedCopyLeavesTheSource]_vars

MoveKeepsTheObject_Witness ==
    \E p \in Procs :
        /\ request[p].stage = "responded" /\ request[p].copied
        /\ request[p].deleted
        /\ s3[request[p].temp_file_key] = NoObj
        /\ s3[request[p].file_key] # NoObj

(***************************************************************************)
(* C32: a move is idempotent.  When the destination key holds an object at *)
(* the check of move_s3_object, the call copies nothing, deletes nothing   *)
(* and returns normally, so that check-transcription answers COMPLETED     *)
(* with the file key of the identity and the store is left as it was.      *)
(***************************************************************************)
\* request p is past the existence check of its move
PastTheCheck(p) == InMove(p) /\ request[p].stage # "move_check"

\* request p was answered COMPLETED with the file key of its identity
AnsweredCompleted(p) ==
    /\ request[p].stage = "responded"
    /\ IsOK(request[p].response)
    /\ request[p].response =
          CompletedResponse(TranscriptionFileKey(
              request[p].transcription_job_name, request[p].identity_id))

C32_MoveIsIdempotent ==
    \A p \in Procs :
        PastTheCheck(p) /\ request[p].found_at_check =>
            /\ ~request[p].copied
            /\ ~request[p].deleted
            /\ AnsweredCompleted(p)

\* What holds of C32: a call whose existence check returned True copies and
\* deletes nothing and is answered COMPLETED with the same file key, and
\* a step of such a call leaves the store as it was.
IdempotentWhenHeadAnswers ==
    /\ [](\A p \in Procs :
             PastTheCheck(p) /\ request[p].destination_exists =>
                 /\ request[p].found_at_check
                 /\ ~request[p].copied
                 /\ ~request[p].deleted
                 /\ AnsweredCompleted(p))
    /\ [][\A p \in Procs :
             /\ request[p].stage = "move_check"
             /\ request'[p].destination_exists
             => s3' = s3]_vars

\* a second poll after the transcript was moved, answered from the store
IdempotentWhenHeadAnswers_Witness ==
    \E p \in Procs :
        /\ PastTheCheck(p) /\ request[p].destination_exists
        /\ AnsweredCompleted(p)
        /\ s3[request[p].temp_file_key] = NoObj
        /\ s3[request[p].file_key] # NoObj

(***************************************************************************)
(* C33: starting a transcription is idempotent.  Every start-transcription *)
(* request that no service error ends is answered OK with the job name of  *)
(* its file key, the same name for the same file key every time; a request *)
(* whose job name is taken creates no second job and changes none; and a   *)
(* request that a service error ends is answered with an error response.   *)
(***************************************************************************)
\* request p is an answered start-transcription request
StartAnswered(p) ==
    request[p].fn = "start" /\ request[p].stage = "responded"

\* the job name in the body of an OK response of start-transcription
JobNameOf(response) == JsonLoads(response.body).transcriptionJobName

C33_SameNameAndOK ==
    \A p \in Procs :
        StartAnswered(p) /\ request[p].exception \notin ServiceErrors =>
            /\ IsOK(request[p].response)
            /\ \A q \in Procs :
                  /\ StartAnswered(q) /\ IsOK(request[q].response)
                  /\ request[q].file_key = request[p].file_key
                  => JobNameOf(request[q].response)
                        = JobNameOf(request[p].response)

C33_ServiceErrorIsAnError ==
    \A p \in Procs :
        StartAnswered(p) /\ request[p].exception \in ServiceErrors =>
            ~IsOK(request[p].response)

C33_NoSecondJob ==
    \A name \in TranscriptionJobNames :
        jobs[name] # NoJob => jobs'[name].media = jobs[name].media

C33_StartIsIdempotent ==
    /\ [](C33_SameNameAndOK /\ C33_ServiceErrorIsAnError)
    /\ [][C33_NoSecondJob]_vars

\* What holds of C33: the same for the file keys that can be encoded.
StartIsIdempotentOnEncodableKeys ==
    /\ [](\A p \in Procs :
             /\ StartAnswered(p) /\ CanEncode(request[p].file_key)
             /\ request[p].exception \notin ServiceErrors
             => /\ IsOK(request[p].response)
                /\ JobNameOf(request[p].response)
                      = deterministic_hash(request[p].file_key)[2]
                /\ jobs[JobNameOf(request[p].response)] # NoJob)
    /\ []C33_ServiceErrorIsAnError
    /\ [][C33_NoSecondJob]_vars

\* a second request for a file key whose job another identity started
StartIsIdempotentOnEncodableKeys_Witness ==
    \E p \in Procs :
        /\ StartAnswered(p) /\ IsOK(request[p].response)
        /\ jobs[JobNameOf(request[p].response)].media[1]
              # request[p].identity_id

(***************************************************************************)
(* C34: transcripts stay with the identity that owns the media.  Whatever  *)
(* the interleaving of the requests of two identities with one file key,   *)
(* a transcript under an identity's transcriptions folder was made from    *)
(* media stored under that identity, and a poll of a completed job that no *)
(* failing service ends leaves a transcript under the folder of the        *)
(* identity that polled.                                                   *)
(***************************************************************************)
\* the identity under which the media of a transcript is stored
MediaIdentity(object) == JsonLoads(object).transcript_of[1]

C34_TranscriptOfOwnMedia ==
    \A name \in TranscriptionJobNames, identity_id \in Identities :
        s3[TranscriptionFileKey(name, identity_id)] # NoObj =>
            MediaIdentity(s3[TranscriptionFileKey(name, identity_id)])
                = identity_id

C34_TranscriptUnderOwnFolder ==
    \A p \in Procs :
        /\ InMove(p) /\ request[p].stage = "responded"
        /\ request[p].exception \in {"", "ClientError404"}
        => s3[request[p].file_key] # NoObj

C34_TranscriptsStayWithTheOwner ==
    C34_TranscriptOfOwnMedia /\ C34_TranscriptUnderOwnFolder

\* What holds of C34: a transcript under any folder is the transcript of
\* the media of the identity whose request created the job, and a poll
\* answered COMPLETED has left a transcript under the folder of its identity.
TranscriptOfTheJobsMedia ==
    /\ \A name \in TranscriptionJobNames, identity_id \in Identities :
          s3[TranscriptionFileKey(name, identity_id)] # NoObj =>
              s3[TranscriptionFileKey(name, identity_id)]
                  = TranscriptOf(jobs[name].media)
    /\ \A p \in Procs :
          InMove(p) /\ AnsweredCompleted(p) => s3[request[p].file_key] # NoObj

\* a transcript of the media of one identity under the folder of the other
TranscriptOfTheJobsMedia_Witness ==
    \E name \in TranscriptionJobNames, identity_id \in Identities :
        /\ s3[TranscriptionFileKey(name, identity_id)] # NoObj
        /\ jobs[name].media[1] # identity_id
        /\ \E p \in Procs :
              /\ InMove(p) /\ AnsweredCompleted(p)
              /\ request[p].identity_id = identity_id

(***************************************************************************)
(* What remains of C1, C5 and C7 when head_object answers the existence    *)
(* check: the hit paths themselves are as the claims describe them.        *)
(***************************************************************************)
HitWhenHeadAnswers ==
    \A p \in Procs :
        (IsGenerate(p) /\ Checked(p) /\ log[p].head = "found") =>
            /\ log[p].generated = 0
            /\ pc[p] \notin {"generate", "write"}
            /\ log[p].puts = << >>
            /\ Returned(p) =>
                  /\ outcome[p][3] = TRUE
                  /\ JsonDumps(outcome[p][2]) = log[p].read

RaceWhenHeadAnswers ==
    /\ \A p \in Procs :
          (IsGenerate(p) /\ log[p].raced /\ Returned(p)) =>
              log[p].generated = 1 /\ Len(log[p].puts) = 1
    /\ \A k \in TextKeys :
          settled[k] # NoObj =>
              /\ IsJson(settled[k]) /\ JsonLoads(settled[k]) \in Values
              /\ (\A r \in Procs : call[r].file_key = k => log[r].head # "error")
                    => s3[k] = settled[k]

ShortCircuitWhenHeadAnswers ==
    \A p \in Procs :
        (IsSynthesize(p) /\ Checked(p) /\ log[p].head = "found") =>
            /\ log[p].polly = << >>
            /\ pc[p] = "done"
            /\ outcome[p] = << SYNTHESIS_RESULT_AUDIO_KEY, call[p].file_key >>

====
